---- MODULE Spec2Model ----
(***************************************************************************)
(* A model of the SCons Qt5 tool (src/config/qt5/__init__.py).             *)
(*                                                                         *)
(* Values of construction variables, file names and file contents are      *)
(* sequences of strings.  A path is the sequence of its components, a      *)
(* text is the sequence of its characters, where the words the tool's      *)
(* regular expressions only ever match whole ("Q_OBJECT", "include",       *)
(* "moc_", "cpp", ...) are one element each.                               *)
(***************************************************************************)
EXTENDS Integers, Sequences, FiniteSets, TLC

VARIABLES
    env,       \* the build environment: construction variable -> value
    emitters,  \* PROGEMITTER / SHLIBEMITTER / LIBEMITTER: lists of emitters
    builders,  \* env['BUILDERS'], the added methods, the cxx builder's hooks
    world,     \* what the tool reads from outside: os.environ, PATH, files
    det,       \* the outcome of the last call of _detect
    gen,       \* the calls of generate: how many, how the last two ended, the
               \* state before the last and before the first
    fs,        \* the readable files: file -> text
    sources,   \* the source list an emitter of the scanner is called with
    am,        \* the call of the scanner: which emitter, whether it has run,
               \* what it returned and what it registered with the host
    call       \* the call of a wrapper, a command generator, the resource
               \* scanner or EnableQt5Modules: its arguments and its outcome

vars == <<env, emitters, builders, world, det, gen, fs, sources, am, call>>

(***************************************************************************)
(* Helpers on sequences.                                                   *)
(***************************************************************************)
Range(s) == {s[i] : i \in 1..Len(s)}

\* all sequences over S of length at most n
SeqsUpTo(S, n) == UNION {[1..k -> S] : k \in 0..n}

Min(S) == CHOOSE x \in S : \A y \in S : x <= y
Max(S) == CHOOSE x \in S : \A y \in S : y <= x

(***************************************************************************)
(* The Installation Locator: _detect (lines 438-476).                      *)
(***************************************************************************)
\* the decimal digits \d matches and int() reads: the ten digits of every
\* script, each row from 0 to 9.  A character that cannot be written in a
\* string is the token <uXXXX> of its code point
Hex == <<"0", "1", "2", "3", "4", "5", "6", "7", "8", "9", "a", "b", "c", "d", "e", "f">>

\* the ten tokens <uXXXX> that begin with p and end with the hexadecimal
\* digits k, ..., k + 9
DigitRow(p, k) == [v \in 1..10 |-> p \o Hex[k + v] \o ">"]

\* the rows whose zero stands at a code point that ends in 0, each given by
\* the token of its zero without the last hexadecimal digit
RowsAt0 ==
    {"<u066", "<u06f", "<u07c", "<u0e5", "<u0ed", "<u0f2", "<u104", "<u109",
     "<u17e", "<u181", "<u19d", "<u1a8", "<u1a9", "<u1b5", "<u1bb", "<u1c4",
     "<u1c5", "<ua62", "<ua8d", "<ua90", "<ua9d", "<ua9f", "<uaa5", "<uabf",
     "<uff1", "<u104a", "<u10d3", "<u110f", "<u111d", "<u112f", "<u1145",
     "<u114d", "<u1165", "<u116c", "<u1173", "<u118e", "<u1195", "<u11c5",
     "<u11d5", "<u11da", "<u16a6", "<u16ac", "<u16b5", "<u1e14", "<u1e2f",
     "<u1e95", "<u1fbf"}

\* the rows whose zero stands at a code point that ends in 6
RowsAt6 ==
    {"<u096", "<u09e", "<u0a6", "<u0ae", "<u0b6", "<u0be", "<u0c6", "<u0ce",
     "<u0d6", "<u0de", "<u194", "<u1106", "<u1113", "<u1d7f"}

\* the four rows from 1d7ce on, which run from one sixteen into the next
MathRows ==
    {[v \in 1..10 |->
         LET n == 206 + 10 * k + v - 1
         IN  "<u1d7" \o Hex[(n \div 16) + 1] \o Hex[(n % 16) + 1] \o ">"] : k \in 0..3}

DigitRows ==
    {<<"0", "1", "2", "3", "4", "5", "6", "7", "8", "9">>}
        \cup {DigitRow(p, 0) : p \in RowsAt0}
        \cup {DigitRow(p, 6) : p \in RowsAt6} \cup MathRows

\* the value of every digit of the rows
DigitTable(rows) ==
    [c \in UNION {Range(r) : r \in rows} |->
        CHOOSE v \in 0..9 : \E r \in rows : r[v + 1] = c]

DigitValue == DigitTable(DigitRows)

Digits == DOMAIN DigitValue

\* the value of every character of s that is a digit, -1 for the others
DigitsOf(s, dv) ==
    [i \in 1..Len(s) |-> IF s[i] \in DOMAIN dv THEN dv[s[i]] ELSE -1]

\* sys.get_int_max_str_digits(): int() raises ValueError for a text of
\* more digits (Python 3.11 and later)
MaxStrDigits == 4300

\* Python's integers have no upper bound.  The plugin only compares the
\* numbers it reads with 0, 1 and 5, so a number of more than MaxExactDigits
\* digits is held as IntCap, the least number of that many digits
MaxExactDigits == 9
IntCap == 1000000000

\* the number a run of digits stands for, given by the values of its digits
RECURSIVE IntOf(_, _, _)
IntOf(d, i, j) ==
    IF j < i THEN 0
    ELSE IF j - i >= MaxExactDigits THEN IntCap
    ELSE 10 * IntOf(d, i, j - 1) + d[j]

\* the blanks int() strips from both ends of its argument
Blanks ==
    {"\t", "\n", "<u000b>", "\f", "\r", " ", "<u0085>", "<u00a0>", "<u1680>",
     "<u2000>", "<u2001>", "<u2002>", "<u2003>", "<u2004>", "<u2005>",
     "<u2006>", "<u2007>", "<u2008>", "<u2009>", "<u200a>", "<u2028>",
     "<u2029>", "<u202f>", "<u205f>", "<u3000>"}

\* the number the text v holds, d the values of its digits: <<n>>, or <<>>
\* when int() raises ValueError.  Blanks around the number are stripped, a
\* sign may lead it, single underscores may stand between its digits, and
\* it has at most MaxStrDigits digits, leading zeros counted
Number(v, d) ==
    LET solid == {i \in 1..Len(v) : v[i] \notin Blanks}
        signed == solid # {} /\ v[Min(solid)] \in {"+", "-"}
        lo == IF signed THEN Min(solid) + 1 ELSE Min(solid)
        hi == CHOOSE i \in solid : \A j \in (i + 1)..Len(v) : v[j] \in Blanks
        ok == /\ solid # {} /\ lo <= hi
              /\ d[lo] >= 0 /\ d[hi] >= 0
              /\ \A i \in lo..hi : d[i] >= 0 \/ v[i] = "_"
              /\ \A i \in lo..(hi - 1) : ~(v[i] = "_" /\ v[i + 1] = "_")
        digits == SelectSeq(SubSeq(d, lo, hi), LAMBDA x : x >= 0)
        \* leading zeros add nothing to the value
        nonzero == {i \in 1..Len(digits) : digits[i] # 0}
        n == IF nonzero = {} THEN 0 ELSE IntOf(digits, Min(nonzero), Len(digits))
    IN  IF ~ok \/ Len(digits) > MaxStrDigits THEN <<>>
        ELSE IF v[Min(solid)] = "-" THEN <<0 - n>> ELSE <<n>>

\* int(text): <<n>>, or <<>> for ValueError
int(v) == Number(v, DigitsOf(v, DigitValue))

\* '.' of a regular expression does not match a newline, and re.match
\* anchors at the start: only the first line of the output can match
FirstLine(s) ==
    LET nl == {i \in 1..Len(s) : s[i] = "\n"}
    IN  IF nl = {} THEN s ELSE SubSeq(s, 1, Min(nl) - 1)

\* the end of the run of digits that position i is in; ends holds the last
\* position of every run
DigitRunEnd(ends, i) == Min({e \in ends : e >= i})

\* (\d+)\.(\d+)\.(\d+) matches s from position k on; d holds the values
\* of the digits of s
TripleAt(s, d, ends, k) ==
    /\ k <= Len(s) /\ d[k] >= 0
    /\ LET e1 == DigitRunEnd(ends, k) IN
       /\ e1 + 2 <= Len(s) /\ s[e1 + 1] = "." /\ d[e1 + 2] >= 0
       /\ LET e2 == DigitRunEnd(ends, e1 + 2) IN
          e2 + 2 <= Len(s) /\ s[e2 + 1] = "." /\ d[e2 + 2] >= 0

\* the three groups of the match that starts at position k
TripleFrom(s, ends, k) ==
    LET e1 == DigitRunEnd(ends, k)
        e2 == DigitRunEnd(ends, e1 + 2)
        e3 == DigitRunEnd(ends, e2 + 2)
    IN  <<SubSeq(s, k, e1), SubSeq(s, e1 + 2, e2), SubSeq(s, e2 + 2, e3)>>

\* the three groups of the match on the line s.  The leading '.*' is
\* greedy: the match starts as far right as it can.
Groups(s, d) ==
    LET ends == {i \in 1..Len(s) : d[i] >= 0 /\ (i = Len(s) \/ d[i + 1] < 0)}
        K == {k \in 1..Len(s) : TripleAt(s, d, ends, k)}
    IN  IF K = {} THEN <<>> ELSE TripleFrom(s, ends, Max(K))

\* mocver_re.match(vernumber).groups(): <<>> when there is no match, else
\* the texts of the three groups
mocver_re(out) == Groups(FirstLine(out), DigitsOf(FirstLine(out), DigitValue))

\* Python's list comparison a < b of two lists of three integers
ListLess(a, b) ==
    \/ a[1] < b[1]
    \/ a[1] = b[1] /\ a[2] < b[2]
    \/ a[1] = b[1] /\ a[2] = b[2] /\ a[3] < b[3]

\* os.path.dirname of a path given by its components
dirname(p) == IF p = <<>> THEN <<>> ELSE SubSeq(p, 1, Len(p) - 1)

\* env.WhereIs(name): the path of the executable, <<>> (None) when not found
WhereIs(w, name) ==
    IF name \in DOMAIN w.whereis THEN w.whereis[name] ELSE <<>>

\* moc = env.WhereIs('moc-qt5') or env.WhereIs('moc5') or env.WhereIs('moc')
ProbeMoc(w) ==
    IF WhereIs(w, "moc-qt5") # <<>> THEN WhereIs(w, "moc-qt5")
    ELSE IF WhereIs(w, "moc5") # <<>> THEN WhereIs(w, "moc5")
    ELSE WhereIs(w, "moc")

\* bytes.decode() (lines 71-73, 457): <<text>>, or <<>> when it raises
\* UnicodeDecodeError; "<e9>" stands for a byte that is not valid UTF-8
_bytes_to_str(text) == IF "<e9>" \in Range(text) THEN <<>> ELSE <<text>>

NoDetect ==
    [outcome |-> "none", value |-> <<>>, probed |-> FALSE, ran |-> FALSE,
     out |-> <<>>, moc |-> <<>>]

\* _detect(env) in build environment e and world w, where out is what
\* '<moc> -v' prints when it is run
DetectFrom(e, w, out, order) ==
    LET hint(k) ==
            IF order[k][1] = "env"
            THEN (IF order[k][2] \in DOMAIN e THEN <<e[order[k][2]]>> ELSE <<>>)
            ELSE (IF order[k][2] \in DOMAIN w.osenv
                  THEN <<w.osenv[order[k][2]]>> ELSE <<>>)
        found == {k \in 1..Len(order) : hint(k) # <<>>}
    IN  IF found # {}
        THEN [NoDetect EXCEPT
                 !.outcome = "return",
                 !.value = hint(CHOOSE k \in found : \A j \in found : k <= j)[1]]
        ELSE LET moc == ProbeMoc(w) IN
             IF moc # <<>>
             THEN LET ran == [NoDetect EXCEPT !.probed = TRUE, !.ran = TRUE,
                                              !.out = out, !.moc = moc]
                      groups == mocver_re(out)
                      vernumber == [i \in 1..3 |-> int(groups[i])]
                  IN  \* vernumber.decode() (line 457)
                      IF _bytes_to_str(out) = <<>>
                      THEN [ran EXCEPT !.outcome = "UnicodeDecodeError"]
                      ELSE IF groups = <<>>
                      THEN [ran EXCEPT !.outcome = "return",
                                       !.value = dirname(dirname(moc))]
                      \* int(x) for x in vernumber.groups() (line 461)
                      ELSE IF \E i \in 1..3 : vernumber[i] = <<>>
                      THEN [ran EXCEPT !.outcome = "ValueError"]
                      ELSE IF ListLess([i \in 1..3 |-> vernumber[i][1]], <<5, 0, 0>>)
                      THEN [ran EXCEPT !.outcome = "Exception"]
                      ELSE [ran EXCEPT !.outcome = "return",
                                       !.value = dirname(dirname(moc))]
             ELSE [NoDetect EXCEPT !.outcome = "StopError", !.probed = TRUE]

\* the order in which _detect tries the hints (lines 440-450)
HintOrder ==
    << <<"env", "QT5DIR">>, <<"env", "QTDIR">>,
       <<"os", "QT5DIR">>, <<"os", "QTDIR">> >>

\* the process environment asked before the build environment
DetectOsFirst(e, w, out) ==
    DetectFrom(e, w, out,
               << <<"os", "QT5DIR">>, <<"os", "QTDIR">>,
                  <<"env", "QT5DIR">>, <<"env", "QTDIR">> >>)

_detect(e, w, out) == DetectFrom(e, w, out, HintOrder)

(***************************************************************************)
(* The Configuration Registrar: generate (lines 709-897).                  *)
(***************************************************************************)
Commands == <<"moc", "uic", "rcc", "lupdate", "lrelease">>

\* the variable each command's path is stored in (lines 746-750)
ToolVar(c) ==
    CASE c = "moc" -> "QT5_MOC" [] c = "uic" -> "QT5_UIC" [] c = "rcc" -> "QT5_RCC"
      [] c = "lupdate" -> "QT5_LUPDATE" [] c = "lrelease" -> "QT5_LRELEASE"

suffixes == <<"-qt5", "-qt5.exe", "5", "5.exe", "", ".exe">>
command_suffixes == <<"-qt5", "5", "">>

\* env.Detect(progs): the first program of the list found on the search
\* path, by its name; <<>> (None) when there is none
EnvDetect(w, command, sfx) ==
    LET hit == {i \in 1..Len(sfx) : WhereIs(w, command \o sfx[i]) # <<>>}
    IN  IF hit = {} THEN <<>>
        ELSE <<command \o sfx[CHOOSE i \in hit : \A j \in hit : i <= j]>>

\* locateQt5Command(env, command, qtdir): the path found, <<>> when the
\* function raises "Qt5 command not found"
locateQt5Command(w, command, qtdir) ==
    LET fullpath(i) == qtdir \o <<"bin", command \o suffixes[i]>>
        hit == {i \in 1..Len(suffixes) : fullpath(i) \in w.fsx}
    IN  IF hit # {} THEN fullpath(CHOOSE i \in hit : \A j \in hit : i <= j)
        ELSE EnvDetect(w, command, command_suffixes)

\* (4, 2, 0) <= version, for tuples of three integers (line 737)
TupleLeq(a, b) ==
    \/ a[1] < b[1]
    \/ a[1] = b[1] /\ a[2] < b[2]
    \/ a[1] = b[1] /\ a[2] = b[2] /\ a[3] <= b[3]

QT5_MOCDEFINES(w) ==
    IF TupleLeq(<<4, 2, 0>>, w.sconsver)
    THEN <<"${_defines(QT5_MOCDEFPREFIX, CPPDEFINES, QT5_MOCDEFSUFFIX, __env__, TARGET, SOURCE)}">>
    ELSE <<"${_defines(QT5_MOCDEFPREFIX, CPPDEFINES, QT5_MOCDEFSUFFIX, __env__)}">>

\* the keyword arguments of env.Replace that do not depend on the
\* environment (lines 743, 753-808)
StaticDefaults ==
    [QT5_BINPATH |-> <<"$QT5DIR", "bin">>,
     QT5_AUTOSCAN |-> <<"1">>,
     QT5_AUTOSCAN_STRATEGY |-> <<"0">>,
     QT5_GOBBLECOMMENTS |-> <<"0">>,
     QT5_CPPDEFINES_PASSTOMOC |-> <<"1">>,
     QT5_CLEAN_TS |-> <<"0">>,
     QT5_AUTOMOC_SCANCPPPATH |-> <<"1">>,
     QT5_AUTOMOC_CPPPATH |-> <<>>,
     QT5_UICFLAGS |-> <<>>,
     QT5_MOCFROMHFLAGS |-> <<>>,
     QT5_MOCFROMCXXFLAGS |-> <<"-i">>,
     QT5_QRCFLAGS |-> <<>>,
     QT5_LUPDATEFLAGS |-> <<>>,
     QT5_LRELEASEFLAGS |-> <<>>,
     QT5_UISUFFIX |-> <<".", "ui">>,
     QT5_UICDECLPREFIX |-> <<"ui_">>,
     QT5_UICDECLSUFFIX |-> <<".", "h">>,
     QT5_MOCINCPREFIX |-> <<"-I">>,
     QT5_MOCHPREFIX |-> <<"moc_">>,
     QT5_MOCHSUFFIX |-> <<"$CXXFILESUFFIX">>,
     QT5_MOCCXXPREFIX |-> <<>>,
     QT5_MOCCXXSUFFIX |-> <<".", "moc">>,
     QT5_QRCSUFFIX |-> <<".", "qrc">>,
     QT5_QRCCXXSUFFIX |-> <<"$CXXFILESUFFIX">>,
     QT5_QRCCXXPREFIX |-> <<"qrc_">>,
     QT5_MOCDEFPREFIX |-> <<"-D">>,
     QT5_MOCDEFSUFFIX |-> <<>>,
     QT5_MOCCPPPATH |-> <<>>,
     QT5_MOCINCFLAGS |->
         <<"$( ${_concat(QT5_MOCINCPREFIX, QT5_MOCCPPPATH, INCSUFFIX, __env__, RDirs)} $)">>,
     QT5_UICCOM |-> <<"$QT5_UIC $QT5_UICFLAGS -o $TARGET $SOURCE">>,
     QT5_LUPDATECOM |-> <<"$QT5_LUPDATE $QT5_LUPDATEFLAGS $SOURCES -ts $TARGET">>,
     QT5_LRELEASECOM |-> <<"$QT5_LRELEASE $QT5_LRELEASEFLAGS -qm $TARGET $SOURCES">>,
     QT5_XMOCHPREFIX |-> <<"moc_">>,
     QT5_XMOCHSUFFIX |-> <<".", "cpp">>,
     QT5_XMOCCXXPREFIX |-> <<>>,
     QT5_XMOCCXXSUFFIX |-> <<".", "moc">>]

ToolVars == {ToolVar(Commands[i]) : i \in 1..Len(Commands)}

\* every keyword of the env.Replace call (lines 741-809)
ReplaceKeys == DOMAIN StaticDefaults \cup ToolVars \cup {"QT5DIR", "QT5_MOCDEFINES"}

\* f overridden by g: the dictionary update env.Replace and env[k] = v do
Updated(f, g) ==
    [k \in DOMAIN f \cup DOMAIN g |-> IF k \in DOMAIN g THEN g[k] ELSE f[k]]

\* only the keys the environment holds already are replaced
ReplaceExistingOnly(f, g) ==
    [k \in DOMAIN f |-> IF k \in DOMAIN g THEN g[k] ELSE f[k]]

\* env.Replace(**kw)
Replace(f, g) == Updated(f, g)

\* the keyword arguments of env.Replace, evaluated in environment e (which
\* holds QT5DIR already); tools maps each command to its located path
ReplaceArgs(e, w, tools) ==
    LET dyn == [k \in ToolVars \cup {"QT5DIR", "QT5_MOCDEFINES"} |->
                   IF k = "QT5DIR" THEN e["QT5DIR"]
                   ELSE IF k = "QT5_MOCDEFINES" THEN QT5_MOCDEFINES(w)
                   ELSE tools[k]]
    IN  Updated(StaticDefaults, dyn)

\* env.Append in place of env.AppendUnique
AppendAlways(list, x) == Append(list, x)

\* env.AppendUnique(KEY = [x]) on a list

AppendUnique(list, x) == IF x \in Range(list) THEN list ELSE Append(list, x)

\* a file name extension is the sequence <<".", word>>
header_extensions(w) ==
    IF w.casesens
    THEN << <<".", "h">>, <<".", "hxx">>, <<".", "hpp">>, <<".", "hh">>, <<".", "H">> >>
    ELSE << <<".", "h">>, <<".", "hxx">>, <<".", "hpp">>, <<".", "hh">> >>

cxx_suffixes == << <<".", "c">>, <<".", "cxx">>, <<".", "cpp">>, <<".", "cc">> >>

\* a suffix-dispatched meta-object builder (lines 839-871): for each source
\* extension the command generator and the variables ($NAME, written NAME)
\* that hold the target's prefix and suffix
MocBuilder(w, hpre, hsuf, cpre, csuf) ==
    [x \in Range(header_extensions(w)) \cup Range(cxx_suffixes) |->
        IF x \in Range(header_extensions(w))
        THEN <<"__moc_generator_from_h", hpre, hsuf>>
        ELSE <<"__moc_generator_from_cxx", cpre, csuf>>]

\* the builder table after lines 828-871
RegisterBuilders(b, w) ==
    [b EXCEPT
       !.table = Updated(b.table,
           [Uic5 |-> [x \in {<<"$QT5_UISUFFIX">>} |->
                        <<"$QT5_UICCOM", "QT5_UICDECLPREFIX", "QT5_UICDECLSUFFIX">>],
            Moc5 |-> MocBuilder(w, "QT5_MOCHPREFIX", "QT5_MOCHSUFFIX",
                                   "QT5_MOCCXXPREFIX", "QT5_MOCCXXSUFFIX"),
            XMoc5 |-> MocBuilder(w, "QT5_XMOCHPREFIX", "QT5_XMOCHSUFFIX",
                                    "QT5_XMOCCXXPREFIX", "QT5_XMOCCXXSUFFIX")]),
       !.methods = @ \cup {"Ts5", "Qm5", "Qrc5", "ExplicitMoc5", "ExplicitUic5",
                           "EnableQt5Modules"},
       !.cxxaction = @ \cup {"$QT5_QRCSUFFIX"},
       !.cxxemitter = @ \cup {"$QT5_QRCSUFFIX"}]

\* lines 886-888
RegisterEmitters(em) ==
    [em EXCEPT !.PROGEMITTER = AppendUnique(@, "AutomocStatic"),
               !.SHLIBEMITTER = AppendUnique(@, "AutomocShared"),
               !.LIBEMITTER = AppendUnique(@, "AutomocStatic")]

\* generate(env) from environment e, emitter lists em and builder table b:
\* the state it leaves and how it ends
generate(e, em, b, w, out) ==
    LET d == _detect(e, w, out)
        e1 == Updated(e, [k \in {"QT5DIR"} |-> d.value])
        tools == [k \in ToolVars |->
                    locateQt5Command(w, CHOOSE c \in Range(Commands) : ToolVar(c) = k,
                                     e1["QT5DIR"])]
    IN  IF d.outcome # "return"
        THEN [status |-> d.outcome, env |-> e, emitters |-> em, builders |-> b,
              det |-> d]
        ELSE IF \E k \in ToolVars : tools[k] = <<>>
        THEN [status |-> "Exception", env |-> e1, emitters |-> em, builders |-> b,
              det |-> d]
        ELSE [status |-> "ok",
              env |-> Replace(e1, ReplaceArgs(e1, w, tools)),
              emitters |-> RegisterEmitters(em),
              builders |-> RegisterBuilders(b, w),
              det |-> d]

(***************************************************************************)
(* The inputs of the locator and of the registrar.                         *)
(***************************************************************************)
\* bounds
MaxVerLen == 5
MaxGenCalls == 2

\* the values the four hints hold when they are present
EnvQt5 == <<"opt", "qt5">>
EnvQt == <<"opt", "qt">>
OsQt5 == <<"os", "qt5">>
OsQt == <<"os", "qt">>

\* where the executables found on the search path live
PathOf(name) ==
    CASE name = "moc-qt5" -> <<"usr", "lib", "qt5", "bin", name>>
      [] name = "moc5" -> <<"usr", "local", "bin", name>>
      [] name = "moc" -> <<"bin", name>>
      [] OTHER -> <<"usr", "bin", name>>

PartialFns(D, val(_)) == {[k \in S |-> val(k)] : S \in SUBSET D}

EnvHint(k) == IF k = "QT5DIR" THEN EnvQt5 ELSE EnvQt
OsHint(k) == IF k = "QT5DIR" THEN OsQt5 ELSE OsQt

\* what '<moc> -v' may print
VerAlphabet == {"0", "4", "5", "<u0664>", ".", "\n"}

\* a numeral of MaxStrDigits + 1 digits: as a number it is 1
LongNumeral == [i \in 1..(MaxStrDigits + 1) |-> IF i > MaxStrDigits THEN "1" ELSE "0"]

\* a version line followed by a byte that is not valid UTF-8, and a version
\* whose last number is too long for int()
VerUndecodable == <<"5", ".", "2", ".", "1", "\n", "<e9>">>
VerLong == <<"5", ".", "2", ".">> \o LongNumeral

VerOutputs == SeqsUpTo(VerAlphabet, MaxVerLen) \cup {VerUndecodable, VerLong}

IdleGen ==
    [calls |-> 0, status |-> "none", prev |-> "none",
     before |-> [env |-> <<>>, emitters |-> <<>>, builders |-> <<>>],
     first |-> [env |-> <<>>, emitters |-> <<>>, builders |-> <<>>]]

NoBuilders ==
    [table |-> [k \in {"Object"} |->
                   [x \in {<<".", "cpp">>} |-> <<"$CXXCOM", "OBJPREFIX", "OBJSUFFIX">>]],
     methods |-> {}, cxxaction |-> {".cc"}, cxxemitter |-> {}]

NoEmitters ==
    [PROGEMITTER |-> <<>>, SHLIBEMITTER |-> <<>>, LIBEMITTER |-> <<>>]

IdleAm ==
    [emitter |-> "none", done |-> FALSE, raised |-> FALSE, out |-> <<>>,
     steps |-> {}, depends |-> {}, ignores |-> {},
     benv |-> [objBuilder |-> "none", Moc5 |-> "none", XMoc5 |-> "none"]]

NoCall == [op |-> "none", done |-> FALSE]

BaseWorld ==
    [osenv |-> <<>>, whereis |-> <<>>, fsx |-> {}, sconsver |-> <<4, 2, 0>>,
     casesens |-> TRUE]

(***************************************************************************)
(* SpecDetect: the locator alone, on every combination of hints and        *)
(* executables and every output of the version query.                      *)
(***************************************************************************)
InitDetect ==
    /\ env \in PartialFns({"QT5DIR", "QTDIR"}, EnvHint)
    /\ \E os \in PartialFns({"QT5DIR", "QTDIR"}, OsHint),
          wh \in PartialFns({"moc-qt5", "moc5", "moc"}, PathOf) :
          world = [BaseWorld EXCEPT !.osenv = os, !.whereis = wh]
    /\ emitters = NoEmitters
    /\ builders = NoBuilders
    /\ det = NoDetect
    /\ gen = IdleGen
    /\ fs = <<>>
    /\ sources = <<>>
    /\ am = IdleAm
    /\ call = NoCall

Detect ==
    /\ det.outcome = "none"
    /\ \E out \in VerOutputs : det' = _detect(env, world, out)
    /\ UNCHANGED <<env, emitters, builders, world, gen, fs, sources, am, call>>

SpecDetect == InitDetect /\ [][Detect]_vars

(***************************************************************************)
(* SpecGen: generate, called up to MaxGenCalls times on an environment     *)
(* the caller has prepared.                                                *)
(***************************************************************************)
\* what the caller may have set before generate is called
Preset(k) ==
    CASE k = "QT5DIR" -> EnvQt5
      [] k = "QTDIR" -> EnvQt
      [] k = "QT5_AUTOSCAN" -> <<"0">>
      [] k = "QT5_MOC" -> <<"my", "moc">>
      [] k = "QT5_DEBUG" -> <<"1">>
      [] k = "QT5_MOCCOMSTR" -> <<"Moc'ing", " ", "$SOURCE">>

PresetVars ==
    {"QT5DIR", "QTDIR", "QT5_AUTOSCAN", "QT5_MOC", "QT5_DEBUG", "QT5_MOCCOMSTR"}

\* an installation of the commands in root/bin under the given names
Installed(root, cmds, sfx) == {root \o <<"bin", c \o x>> : c \in cmds, x \in sfx}

AllCommands == Range(Commands)

OnPath(cmds, sfx) ==
    [n \in {c \o x : c \in cmds, x \in sfx} |-> PathOf(n)]

\* the installations tried: what is executable under which root, and what
\* is on the search path
Installations ==
    { [fsx |-> {}, whereis |-> <<>>],
      [fsx |-> {}, whereis |-> OnPath({"moc"}, {"-qt5"})],
      [fsx |-> {}, whereis |-> OnPath(AllCommands, {"5", ""})],
      [fsx |-> Installed(EnvQt5, AllCommands, {"-qt5"}), whereis |-> <<>>],
      [fsx |-> Installed(EnvQt5, AllCommands, {"5", ""}),
       whereis |-> OnPath(AllCommands, {""})],
      [fsx |-> Installed(EnvQt5, AllCommands \ {"lupdate"}, {""}), whereis |-> <<>>],
      [fsx |-> Installed(EnvQt, AllCommands, {".exe"}),
       whereis |-> OnPath({"lupdate"}, {"-qt5"})],
      [fsx |-> Installed(<<"usr", "lib", "qt5">>, AllCommands, {""}),
       whereis |-> OnPath({"moc"}, {"-qt5"})] }

\* the host tool: its version and whether its file system tells .h from .H
Hosts ==
    { [sconsver |-> <<3, 1, 2>>, casesens |-> FALSE],
      [sconsver |-> <<4, 2, 0>>, casesens |-> TRUE] }

GenOutputs == {<<"5", ".", "2", ".", "1">>, <<"4", ".", "8", ".", "6">>, <<"m">>}

InitGen ==
    /\ env \in PartialFns(PresetVars, Preset)
    /\ \E os \in PartialFns({"QT5DIR"}, OsHint), inst \in Installations, host \in Hosts :
          world = [osenv |-> os, whereis |-> inst.whereis, fsx |-> inst.fsx,
                   sconsver |-> host.sconsver, casesens |-> host.casesens]
    /\ \E p \in {<<>>, <<"user_emitter">>} :
          emitters = [PROGEMITTER |-> p, SHLIBEMITTER |-> <<>>,
                      LIBEMITTER |-> <<"AutomocStatic", "user_emitter">>]
    /\ builders = NoBuilders
    /\ det = NoDetect
    /\ gen = IdleGen
    /\ fs = <<>>
    /\ sources = <<>>
    /\ am = IdleAm
    /\ call = NoCall

Snapshot == [env |-> env, emitters |-> emitters, builders |-> builders]

Generate ==
    /\ gen.calls < MaxGenCalls
    /\ \E out \in GenOutputs :
          LET r == generate(env, emitters, builders, world, out) IN
          /\ env' = r.env
          /\ emitters' = r.emitters
          /\ builders' = r.builders
          /\ det' = r.det
          /\ gen' = [calls |-> gen.calls + 1, status |-> r.status,
                     prev |-> gen.status,
                     before |-> Snapshot,
                     first |-> IF gen.calls = 0 THEN Snapshot ELSE gen.first]
    /\ UNCHANGED <<world, fs, sources, am, call>>

SpecGen == InitGen /\ [][Generate]_vars

(***************************************************************************)
(* Properties of the locator (SpecDetect).                                 *)
(***************************************************************************)
Returned(v) == [NoDetect EXCEPT !.outcome = "return", !.value = v]

NoHints ==
    /\ DOMAIN env \cap {"QT5DIR", "QTDIR"} = {}
    /\ DOMAIN world.osenv \cap {"QT5DIR", "QTDIR"} = {}

\* C2: _detect returns the first hint present, in the order build
\* environment QT5DIR, build environment QTDIR, os.environ QT5DIR,
\* os.environ QTDIR, and the outcome is fixed by that hint alone: nothing
\* is probed or run.  The search path is probed exactly when no hint is
\* present, for moc-qt5, then moc5, then moc.
C2_LocatorPrecedence ==
    det.outcome # "none" =>
        /\ "QT5DIR" \in DOMAIN env => det = Returned(env["QT5DIR"])
        /\ ("QT5DIR" \notin DOMAIN env /\ "QTDIR" \in DOMAIN env)
              => det = Returned(env["QTDIR"])
        /\ (DOMAIN env \cap {"QT5DIR", "QTDIR"} = {}
            /\ "QT5DIR" \in DOMAIN world.osenv)
              => det = Returned(world.osenv["QT5DIR"])
        /\ (DOMAIN env \cap {"QT5DIR", "QTDIR"} = {}
            /\ "QT5DIR" \notin DOMAIN world.osenv /\ "QTDIR" \in DOMAIN world.osenv)
              => det = Returned(world.osenv["QTDIR"])
        /\ det.probed <=> NoHints
        /\ det.probed =>
              det.moc = IF "moc-qt5" \in DOMAIN world.whereis
                            THEN world.whereis["moc-qt5"]
                        ELSE IF "moc5" \in DOMAIN world.whereis
                            THEN world.whereis["moc5"]
                        ELSE IF "moc" \in DOMAIN world.whereis
                            THEN world.whereis["moc"]
                        ELSE <<>>

\* a second-rank hint decides while every lower source is present too
C2_Witness ==
    /\ det = Returned(EnvQt)
    /\ DOMAIN env = {"QTDIR"}
    /\ DOMAIN world.osenv = {"QT5DIR", "QTDIR"}
    /\ DOMAIN world.whereis = {"moc-qt5", "moc5", "moc"}

\* the triple of the groups g is below (5, 0, 0): its first number is below
\* 5, the other two being no less than 0
Below500(g) == LET major == int(g[1]) IN major # <<>> /\ major[1] < 5

\* C3: with no hint and a moc on the search path, a version that parses
\* to a triple below (5,0,0) raises and returns no path; a version at or
\* above (5,0,0), or an output that does not parse, returns the directory
\* two levels above the executable; with no moc at all the locator raises
\* the 'installation not found' error.
C3_VersionGate ==
    (det.outcome # "none" /\ NoHints) =>
        IF det.moc = <<>>
        THEN det.outcome = "StopError" /\ det.value = <<>> /\ ~det.ran
        ELSE LET g == mocver_re(det.out) IN
             /\ det.ran
             /\ (g # <<>> /\ Below500(g))
                   => det.outcome = "Exception" /\ det.value = <<>>
             /\ (g = <<>> \/ ~Below500(g))
                   => /\ det.outcome = "return"
                      /\ det.value = SubSeq(det.moc, 1, Len(det.moc) - 2)
             \* the output is exactly one triple of single digits
             /\ (Len(det.out) = 5 /\ det.out[2] = "." /\ det.out[4] = "."
                 /\ {det.out[1], det.out[3], det.out[5]} \subseteq Digits)
                   => (det.outcome = "Exception" <=> DigitValue[det.out[1]] < 5)
             \* the output holds no digit at all
             /\ Range(det.out) \cap Digits = {} => det.outcome = "return"

(***************************************************************************)
(* Properties of the registrar (SpecGen).                                  *)
(***************************************************************************)
\* the variables the scanner reads (create_automoc_options, lines 169-193;
\* the include-driven strategy, lines 277-281)
ScannerReadVars ==
    {"QT5_AUTOSCAN", "QT5_AUTOSCAN_STRATEGY", "QT5_GOBBLECOMMENTS", "QT5_DEBUG",
     "QT5_AUTOMOC_SCANCPPPATH", "QT5_AUTOMOC_CPPPATH", "QT5_XMOCHPREFIX",
     "QT5_XMOCHSUFFIX", "QT5_XMOCCXXPREFIX", "QT5_XMOCCXXSUFFIX"}

\* the variables the resource emitter and the command generators read or
\* name in the command they return (lines 527-585)
GeneratorReadVars ==
    {"QT5_QRCCXXPREFIX", "QT5_QRCCXXSUFFIX", "QT5_CPPDEFINES_PASSTOMOC", "QT5_MOC",
     "QT5_MOCDEFINES", "QT5_MOCFROMHFLAGS", "QT5_MOCFROMCXXFLAGS", "QT5_MOCINCFLAGS",
     "QT5_RCC", "QT5_QRCFLAGS", "QT5_QRCSUFFIX"}

\* the variables the builders of lines 589-612 and Ts5 name: the action
\* strings, the display strings of the actions, the affixes, QT5_CLEAN_TS
WrapperReadVars ==
    {"QT5_CLEAN_TS", "QT5_LUPDATECOM", "QT5_LUPDATECOMSTR", "QT5_LRELEASECOM",
     "QT5_LRELEASECOMSTR", "QT5_QRCCOMSTR", "QT5_QRCSUFFIX", "QT5_QRCCXXSUFFIX",
     "QT5_QRCCXXPREFIX", "QT5_MOCCOMSTR", "QT5_UICCOM", "QT5_UICCOMSTR"}

\* the variables the values generate installs refer to (lines 735-738,
\* 792-800): the host reads them when it expands the value
CommandReadVars ==
    {"QT5_MOCDEFPREFIX", "QT5_MOCDEFSUFFIX", "QT5_MOCINCPREFIX", "QT5_MOCCPPPATH",
     "QT5_UIC", "QT5_UICFLAGS", "QT5_LUPDATE", "QT5_LUPDATEFLAGS", "QT5_LRELEASE",
     "QT5_LRELEASEFLAGS"}

\* the variables the builders generate registers name (lines 828-879): the
\* action strings, their display strings and the affixes
AffixReadVars ==
    {"QT5_UICCOM", "QT5_UICCOMSTR", "QT5_UISUFFIX", "QT5_UICDECLSUFFIX",
     "QT5_UICDECLPREFIX", "QT5_MOCCOMSTR", "QT5_MOCHPREFIX", "QT5_MOCHSUFFIX",
     "QT5_MOCCXXPREFIX", "QT5_MOCCXXSUFFIX", "QT5_XMOCHPREFIX", "QT5_XMOCHSUFFIX",
     "QT5_XMOCCXXPREFIX", "QT5_XMOCCXXSUFFIX", "QT5_QRCCOMSTR", "QT5_QRCSUFFIX"}

\* the variables enable_modules reads (lines 978-1005)
ModulesReadVars == {"QT5DIR", "QT5_MOC"}

PluginReadVars ==
    ScannerReadVars \cup GeneratorReadVars \cup WrapperReadVars \cup CommandReadVars
        \cup AffixReadVars \cup ModulesReadVars

\* C1 (as claimed): a value the caller put into the environment before
\* generate, for a variable generate installs a default for, is still
\* the variable's value after generate has returned.
C1_CallerValuesKept ==
    gen.status = "ok" =>
        \A k \in ReplaceKeys \cap DOMAIN gen.before.env : env[k] = gen.before.env[k]

\* C4 (as claimed): after generate has returned successfully every
\* variable a later plugin operation reads is present in the environment.
C4_AllReadVarsPresent ==
    gen.status = "ok" => PluginReadVars \subseteq DOMAIN env

\* the variables the plugin reads that are optional: the debug switch and
\* the display strings of the actions
OptionalVars ==
    {"QT5_DEBUG", "QT5_LUPDATECOMSTR", "QT5_LRELEASECOMSTR", "QT5_QRCCOMSTR",
     "QT5_MOCCOMSTR", "QT5_UICCOMSTR"}

\* C4 (amended): after generate has returned successfully every variable
\* a later plugin operation reads, except QT5_DEBUG and the five display
\* strings QT5_*COMSTR, is present; one the caller had not set holds the
\* default of generate's table.  An excepted variable is present only if
\* the caller set it.
C4_ReadVarsPresentButOptional ==
    gen.status = "ok" =>
        /\ PluginReadVars \ OptionalVars \subseteq DOMAIN env
        /\ \A k \in DOMAIN StaticDefaults : env[k] = StaticDefaults[k]
        /\ \A k \in OptionalVars : k \in DOMAIN env <=> k \in DOMAIN gen.first.env

\* generate has succeeded on an environment in which the caller had set
\* nothing at all
C4_Witness ==
    /\ gen.status = "ok"
    /\ DOMAIN gen.first.env = {}
    /\ OptionalVars \cap DOMAIN env = {}

EmitterKeys == {"PROGEMITTER", "SHLIBEMITTER", "LIBEMITTER"}

ScannerOf(key) == IF key = "SHLIBEMITTER" THEN "AutomocShared" ELSE "AutomocStatic"

\* C5: generate is idempotent.  On the state a successful call has left, a
\* second call succeeds and leaves the variables, the builder table and
\* the emitter lists as they are; each emitter list holds its scanner
\* exactly once, after the emitters it held before the first call.
C5_GenerateIdempotent ==
    gen.status = "ok" =>
        /\ \A out \in GenOutputs :
              LET r == generate(env, emitters, builders, world, out) IN
              /\ r.status = "ok"
              /\ r.env = env
              /\ r.emitters = emitters
              /\ r.builders = builders
        /\ \A key \in EmitterKeys :
              /\ Cardinality({i \in 1..Len(emitters[key]) :
                                 emitters[key][i] = ScannerOf(key)}) = 1
              /\ Len(gen.first.emitters[key]) <= Len(emitters[key])
              /\ SubSeq(emitters[key], 1, Len(gen.first.emitters[key]))
                    = gen.first.emitters[key]
        /\ gen.prev = "ok" => Snapshot = gen.before

\* the second call has returned, on lists that held a user's emitter
C5_Witness ==
    /\ gen.status = "ok"
    /\ gen.calls = 2
    /\ gen.prev = "ok"
    /\ gen.first.emitters["PROGEMITTER"] = <<"user_emitter">>

(***************************************************************************)
(* The Automatic Meta-Object Scanner: _Automoc (lines 138-431).            *)
(*                                                                         *)
(* A file is [dir, base, ext]: the directory ("" is the directory of the   *)
(* build script), the name without its extension and the extension, both   *)
(* as tokens.  An entry of a source list is [kind, name, builder, src]:    *)
(* a bare string or a node, its string representation, whether a builder   *)
(* makes it, and the file it is first made from.                           *)
(***************************************************************************)
\* the words of the patterns, character by character
MacroWord == <<"Q", "_", "O", "B", "J", "E", "C", "T">>
IncludeWord == <<"i", "n", "c", "l", "u", "d", "e">>

\* the characters of the tokens that are longer than one character; every
\* other token is one character
Spell ==
    [Q_OBJECT |-> MacroWord,
     cc |-> <<"c", "c">>, cpp |-> <<"c", "p", "p">>, cxx |-> <<"c", "x", "x">>,
     hh |-> <<"h", "h">>,
     hpp |-> <<"h", "p", "p">>, hxx |-> <<"h", "x", "x">>,
     inc |-> <<"i", "n", "c">>, include |-> IncludeWord,
     moc |-> <<"m", "o", "c">>, moc_ |-> <<"m", "o", "c", "_">>,
     os |-> <<"o", "s">>, oth |-> <<"o", "t", "h">>]

\* the tokens a spelled out by sp
RECURSIVE Spelled(_, _)
Spelled(a, sp) ==
    IF a = <<>> THEN <<>>
    ELSE IF Len(a) = 1
    THEN (IF a[1] \in DOMAIN sp THEN sp[a[1]] ELSE a)
    ELSE Spelled(SubSeq(a, 1, Len(a) \div 2), sp)
             \o Spelled(SubSeq(a, (Len(a) \div 2) + 1, Len(a)), sp)

\* the string a sequence of tokens stands for, character by character
Chars(a) == Spelled(a, Spell)

\* the characters in the order of their code points, the order in which
\* Python compares strings
CharOrder ==
    <<"<u0000>", "<u0001>", "<u0002>", "<u0003>", "<u0004>", "<u0005>",
      "<u0006>", "<u0007>", "<u0008>", "\t", "\n", "<u000b>", "\f", "\r",
      "<u000e>", "<u000f>", "<u0010>", "<u0011>", "<u0012>", "<u0013>",
      "<u0014>", "<u0015>", "<u0016>", "<u0017>", "<u0018>", "<u0019>",
      "<u001a>", "<u001b>", "<u001c>", "<u001d>", "<u001e>", "<u001f>", " ",
      "!", "\"", "#", "$", "%", "&", "'", "(", ")", "*", "+", ",", "-", ".",
      "/", "0", "1", "2", "3", "4", "5", "6", "7", "8", "9", ":", ";", "<",
      "=", ">", "?", "@", "A", "B", "C", "D", "E", "F", "G", "H", "I", "J",
      "K", "L", "M", "N", "O", "P", "Q", "R", "S", "T", "U", "V", "W", "X",
      "Y", "Z", "[", "\\", "]", "^", "_", "<u0060>", "a", "b", "c", "d", "e",
      "f", "g", "h", "i", "j", "k", "l", "m", "n", "o", "p", "q", "r", "s",
      "t", "u", "v", "w", "x", "y", "z", "{", "|", "}", "~", "<u007f>",
      "<u0085>", "<u00a0>", "<u0660>", "<u0661>", "<u0662>", "<u0663>",
      "<u0664>", "<u0665>", "<u0666>", "<u0667>", "<u0668>", "<u0669>",
      "<u06f0>", "<u06f1>", "<u06f2>", "<u06f3>", "<u06f4>", "<u06f5>",
      "<u06f6>", "<u06f7>", "<u06f8>", "<u06f9>", "<u07c0>", "<u07c1>",
      "<u07c2>", "<u07c3>", "<u07c4>", "<u07c5>", "<u07c6>", "<u07c7>",
      "<u07c8>", "<u07c9>", "<u0966>", "<u0967>", "<u0968>", "<u0969>",
      "<u096a>", "<u096b>", "<u096c>", "<u096d>", "<u096e>", "<u096f>",
      "<u09e6>", "<u09e7>", "<u09e8>", "<u09e9>", "<u09ea>", "<u09eb>",
      "<u09ec>", "<u09ed>", "<u09ee>", "<u09ef>", "<u0a66>", "<u0a67>",
      "<u0a68>", "<u0a69>", "<u0a6a>", "<u0a6b>", "<u0a6c>", "<u0a6d>",
      "<u0a6e>", "<u0a6f>", "<u0ae6>", "<u0ae7>", "<u0ae8>", "<u0ae9>",
      "<u0aea>", "<u0aeb>", "<u0aec>", "<u0aed>", "<u0aee>", "<u0aef>",
      "<u0b66>", "<u0b67>", "<u0b68>", "<u0b69>", "<u0b6a>", "<u0b6b>",
      "<u0b6c>", "<u0b6d>", "<u0b6e>", "<u0b6f>", "<u0be6>", "<u0be7>",
      "<u0be8>", "<u0be9>", "<u0bea>", "<u0beb>", "<u0bec>", "<u0bed>",
      "<u0bee>", "<u0bef>", "<u0c66>", "<u0c67>", "<u0c68>", "<u0c69>",
      "<u0c6a>", "<u0c6b>", "<u0c6c>", "<u0c6d>", "<u0c6e>", "<u0c6f>",
      "<u0ce6>", "<u0ce7>", "<u0ce8>", "<u0ce9>", "<u0cea>", "<u0ceb>",
      "<u0cec>", "<u0ced>", "<u0cee>", "<u0cef>", "<u0d66>", "<u0d67>",
      "<u0d68>", "<u0d69>", "<u0d6a>", "<u0d6b>", "<u0d6c>", "<u0d6d>",
      "<u0d6e>", "<u0d6f>", "<u0de6>", "<u0de7>", "<u0de8>", "<u0de9>",
      "<u0dea>", "<u0deb>", "<u0dec>", "<u0ded>", "<u0dee>", "<u0def>",
      "<u0e50>", "<u0e51>", "<u0e52>", "<u0e53>", "<u0e54>", "<u0e55>",
      "<u0e56>", "<u0e57>", "<u0e58>", "<u0e59>", "<u0ed0>", "<u0ed1>",
      "<u0ed2>", "<u0ed3>", "<u0ed4>", "<u0ed5>", "<u0ed6>", "<u0ed7>",
      "<u0ed8>", "<u0ed9>", "<u0f20>", "<u0f21>", "<u0f22>", "<u0f23>",
      "<u0f24>", "<u0f25>", "<u0f26>", "<u0f27>", "<u0f28>", "<u0f29>",
      "<u1040>", "<u1041>", "<u1042>", "<u1043>", "<u1044>", "<u1045>",
      "<u1046>", "<u1047>", "<u1048>", "<u1049>", "<u1090>", "<u1091>",
      "<u1092>", "<u1093>", "<u1094>", "<u1095>", "<u1096>", "<u1097>",
      "<u1098>", "<u1099>", "<u1680>", "<u17e0>", "<u17e1>", "<u17e2>",
      "<u17e3>", "<u17e4>", "<u17e5>", "<u17e6>", "<u17e7>", "<u17e8>",
      "<u17e9>", "<u1810>", "<u1811>", "<u1812>", "<u1813>", "<u1814>",
      "<u1815>", "<u1816>", "<u1817>", "<u1818>", "<u1819>", "<u1946>",
      "<u1947>", "<u1948>", "<u1949>", "<u194a>", "<u194b>", "<u194c>",
      "<u194d>", "<u194e>", "<u194f>", "<u19d0>", "<u19d1>", "<u19d2>",
      "<u19d3>", "<u19d4>", "<u19d5>", "<u19d6>", "<u19d7>", "<u19d8>",
      "<u19d9>", "<u1a80>", "<u1a81>", "<u1a82>", "<u1a83>", "<u1a84>",
      "<u1a85>", "<u1a86>", "<u1a87>", "<u1a88>", "<u1a89>", "<u1a90>",
      "<u1a91>", "<u1a92>", "<u1a93>", "<u1a94>", "<u1a95>", "<u1a96>",
      "<u1a97>", "<u1a98>", "<u1a99>", "<u1b50>", "<u1b51>", "<u1b52>",
      "<u1b53>", "<u1b54>", "<u1b55>", "<u1b56>", "<u1b57>", "<u1b58>",
      "<u1b59>", "<u1bb0>", "<u1bb1>", "<u1bb2>", "<u1bb3>", "<u1bb4>",
      "<u1bb5>", "<u1bb6>", "<u1bb7>", "<u1bb8>", "<u1bb9>", "<u1c40>",
      "<u1c41>", "<u1c42>", "<u1c43>", "<u1c44>", "<u1c45>", "<u1c46>",
      "<u1c47>", "<u1c48>", "<u1c49>", "<u1c50>", "<u1c51>", "<u1c52>",
      "<u1c53>", "<u1c54>", "<u1c55>", "<u1c56>", "<u1c57>", "<u1c58>",
      "<u1c59>", "<u2000>", "<u2001>", "<u2002>", "<u2003>", "<u2004>",
      "<u2005>", "<u2006>", "<u2007>", "<u2008>", "<u2009>", "<u200a>",
      "<u2028>", "<u2029>", "<u202f>", "<u205f>", "<u3000>", "<ua620>",
      "<ua621>", "<ua622>", "<ua623>", "<ua624>", "<ua625>", "<ua626>",
      "<ua627>", "<ua628>", "<ua629>", "<ua8d0>", "<ua8d1>", "<ua8d2>",
      "<ua8d3>", "<ua8d4>", "<ua8d5>", "<ua8d6>", "<ua8d7>", "<ua8d8>",
      "<ua8d9>", "<ua900>", "<ua901>", "<ua902>", "<ua903>", "<ua904>",
      "<ua905>", "<ua906>", "<ua907>", "<ua908>", "<ua909>", "<ua9d0>",
      "<ua9d1>", "<ua9d2>", "<ua9d3>", "<ua9d4>", "<ua9d5>", "<ua9d6>",
      "<ua9d7>", "<ua9d8>", "<ua9d9>", "<ua9f0>", "<ua9f1>", "<ua9f2>",
      "<ua9f3>", "<ua9f4>", "<ua9f5>", "<ua9f6>", "<ua9f7>", "<ua9f8>",
      "<ua9f9>", "<uaa50>", "<uaa51>", "<uaa52>", "<uaa53>", "<uaa54>",
      "<uaa55>", "<uaa56>", "<uaa57>", "<uaa58>", "<uaa59>", "<uabf0>",
      "<uabf1>", "<uabf2>", "<uabf3>", "<uabf4>", "<uabf5>", "<uabf6>",
      "<uabf7>", "<uabf8>", "<uabf9>", "<uff10>", "<uff11>", "<uff12>",
      "<uff13>", "<uff14>", "<uff15>", "<uff16>", "<uff17>", "<uff18>",
      "<uff19>", "<u104a0>", "<u104a1>", "<u104a2>", "<u104a3>", "<u104a4>",
      "<u104a5>", "<u104a6>", "<u104a7>", "<u104a8>", "<u104a9>", "<u10d30>",
      "<u10d31>", "<u10d32>", "<u10d33>", "<u10d34>", "<u10d35>", "<u10d36>",
      "<u10d37>", "<u10d38>", "<u10d39>", "<u11066>", "<u11067>", "<u11068>",
      "<u11069>", "<u1106a>", "<u1106b>", "<u1106c>", "<u1106d>", "<u1106e>",
      "<u1106f>", "<u110f0>", "<u110f1>", "<u110f2>", "<u110f3>", "<u110f4>",
      "<u110f5>", "<u110f6>", "<u110f7>", "<u110f8>", "<u110f9>", "<u11136>",
      "<u11137>", "<u11138>", "<u11139>", "<u1113a>", "<u1113b>", "<u1113c>",
      "<u1113d>", "<u1113e>", "<u1113f>", "<u111d0>", "<u111d1>", "<u111d2>",
      "<u111d3>", "<u111d4>", "<u111d5>", "<u111d6>", "<u111d7>", "<u111d8>",
      "<u111d9>", "<u112f0>", "<u112f1>", "<u112f2>", "<u112f3>", "<u112f4>",
      "<u112f5>", "<u112f6>", "<u112f7>", "<u112f8>", "<u112f9>", "<u11450>",
      "<u11451>", "<u11452>", "<u11453>", "<u11454>", "<u11455>", "<u11456>",
      "<u11457>", "<u11458>", "<u11459>", "<u114d0>", "<u114d1>", "<u114d2>",
      "<u114d3>", "<u114d4>", "<u114d5>", "<u114d6>", "<u114d7>", "<u114d8>",
      "<u114d9>", "<u11650>", "<u11651>", "<u11652>", "<u11653>", "<u11654>",
      "<u11655>", "<u11656>", "<u11657>", "<u11658>", "<u11659>", "<u116c0>",
      "<u116c1>", "<u116c2>", "<u116c3>", "<u116c4>", "<u116c5>", "<u116c6>",
      "<u116c7>", "<u116c8>", "<u116c9>", "<u11730>", "<u11731>", "<u11732>",
      "<u11733>", "<u11734>", "<u11735>", "<u11736>", "<u11737>", "<u11738>",
      "<u11739>", "<u118e0>", "<u118e1>", "<u118e2>", "<u118e3>", "<u118e4>",
      "<u118e5>", "<u118e6>", "<u118e7>", "<u118e8>", "<u118e9>", "<u11950>",
      "<u11951>", "<u11952>", "<u11953>", "<u11954>", "<u11955>", "<u11956>",
      "<u11957>", "<u11958>", "<u11959>", "<u11c50>", "<u11c51>", "<u11c52>",
      "<u11c53>", "<u11c54>", "<u11c55>", "<u11c56>", "<u11c57>", "<u11c58>",
      "<u11c59>", "<u11d50>", "<u11d51>", "<u11d52>", "<u11d53>", "<u11d54>",
      "<u11d55>", "<u11d56>", "<u11d57>", "<u11d58>", "<u11d59>", "<u11da0>",
      "<u11da1>", "<u11da2>", "<u11da3>", "<u11da4>", "<u11da5>", "<u11da6>",
      "<u11da7>", "<u11da8>", "<u11da9>", "<u16a60>", "<u16a61>", "<u16a62>",
      "<u16a63>", "<u16a64>", "<u16a65>", "<u16a66>", "<u16a67>", "<u16a68>",
      "<u16a69>", "<u16ac0>", "<u16ac1>", "<u16ac2>", "<u16ac3>", "<u16ac4>",
      "<u16ac5>", "<u16ac6>", "<u16ac7>", "<u16ac8>", "<u16ac9>", "<u16b50>",
      "<u16b51>", "<u16b52>", "<u16b53>", "<u16b54>", "<u16b55>", "<u16b56>",
      "<u16b57>", "<u16b58>", "<u16b59>", "<u1d7ce>", "<u1d7cf>", "<u1d7d0>",
      "<u1d7d1>", "<u1d7d2>", "<u1d7d3>", "<u1d7d4>", "<u1d7d5>", "<u1d7d6>",
      "<u1d7d7>", "<u1d7d8>", "<u1d7d9>", "<u1d7da>", "<u1d7db>", "<u1d7dc>",
      "<u1d7dd>", "<u1d7de>", "<u1d7df>", "<u1d7e0>", "<u1d7e1>", "<u1d7e2>",
      "<u1d7e3>", "<u1d7e4>", "<u1d7e5>", "<u1d7e6>", "<u1d7e7>", "<u1d7e8>",
      "<u1d7e9>", "<u1d7ea>", "<u1d7eb>", "<u1d7ec>", "<u1d7ed>", "<u1d7ee>",
      "<u1d7ef>", "<u1d7f0>", "<u1d7f1>", "<u1d7f2>", "<u1d7f3>", "<u1d7f4>",
      "<u1d7f5>", "<u1d7f6>", "<u1d7f7>", "<u1d7f8>", "<u1d7f9>", "<u1d7fa>",
      "<u1d7fb>", "<u1d7fc>", "<u1d7fd>", "<u1d7fe>", "<u1d7ff>", "<u1e140>",
      "<u1e141>", "<u1e142>", "<u1e143>", "<u1e144>", "<u1e145>", "<u1e146>",
      "<u1e147>", "<u1e148>", "<u1e149>", "<u1e2f0>", "<u1e2f1>", "<u1e2f2>",
      "<u1e2f3>", "<u1e2f4>", "<u1e2f5>", "<u1e2f6>", "<u1e2f7>", "<u1e2f8>",
      "<u1e2f9>", "<u1e950>", "<u1e951>", "<u1e952>", "<u1e953>", "<u1e954>",
      "<u1e955>", "<u1e956>", "<u1e957>", "<u1e958>", "<u1e959>", "<u1fbf0>",
      "<u1fbf1>", "<u1fbf2>", "<u1fbf3>", "<u1fbf4>", "<u1fbf5>", "<u1fbf6>",
      "<u1fbf7>", "<u1fbf8>", "<u1fbf9>">>

\* the place of every character in the order
RankIn(order) ==
    [c \in Range(order) |-> CHOOSE i \in 1..Len(order) : order[i] = c]

CharRank == RankIn(CharOrder)

\* a < b for two sequences of characters that rank places
RECURSIVE CharsLess(_, _, _)
CharsLess(a, b, rank) ==
    IF b = <<>> THEN FALSE
    ELSE IF a = <<>> THEN TRUE
    ELSE IF Head(a) = Head(b) THEN CharsLess(Tail(a), Tail(b), rank)
    ELSE rank[Head(a)] < rank[Head(b)]

\* a < b for two strings
StrLess(a, b) == CharsLess(Chars(a), Chars(b), CharRank)

\* the characters [A-Za-z0-9] matches
Alnum ==
    {"0", "1", "2", "3", "4", "5", "6", "7", "8", "9", "A", "B", "C", "D",
     "E", "F", "G", "H", "I", "J", "K", "L", "M", "N", "O", "P", "Q", "R",
     "S", "T", "U", "V", "W", "X", "Y", "Z", "a", "b", "c", "d", "e", "f",
     "g", "h", "i", "j", "k", "l", "m", "n", "o", "p", "q", "r", "s", "t",
     "u", "v", "w", "x", "y", "z"}

\* the characters \s matches: those of str.isspace
Whitespace ==
    {"\t", "\n", "<u000b>", "\f", "\r", "<u001c>", "<u001d>", "<u001e>",
     "<u001f>", " ", "<u0085>", "<u00a0>", "<u1680>", "<u2000>", "<u2001>",
     "<u2002>", "<u2003>", "<u2004>", "<u2005>", "<u2006>", "<u2007>",
     "<u2008>", "<u2009>", "<u200a>", "<u2028>", "<u2029>", "<u202f>",
     "<u205f>", "<u3000>"}

\* the word w stands in s from position i on
At(s, i, w) ==
    /\ i + Len(w) - 1 <= Len(s)
    /\ \A k \in 1..Len(w) : s[i + k - 1] = w[k]

\* the last position of the line that position i is on
LineEnd(s, i) ==
    LET nl == {j \in i..Len(s) : s[j] = "\n"}
    IN  IF nl = {} THEN Len(s) ELSE Min(nl) - 1

\* self.ccomment.sub('', s): r'/\*(.*?)\*/' with re.S, from position i on.
\* A match starts at the first '/*' that has a '*/' behind it and ends at
\* the nearest one.
RECURSIVE ccomment_sub(_, _)
ccomment_sub(s, i) ==
    LET close(j) == {c \in (j + 2)..(Len(s) - 1) : s[c] = "*" /\ s[c + 1] = "/"}
        open == {j \in i..(Len(s) - 1) :
                    s[j] = "/" /\ s[j + 1] = "*" /\ close(j) # {}}
    IN  IF open = {} THEN SubSeq(s, i, Len(s))
        ELSE SubSeq(s, i, Min(open) - 1)
                 \o ccomment_sub(s, Min(close(Min(open))) + 2)

\* self.cxxcomment.sub('', s): r'//.*$' with re.M, from position i on
RECURSIVE cxxcomment_sub(_, _)
cxxcomment_sub(s, i) ==
    LET open == {j \in i..(Len(s) - 1) : s[j] = "/" /\ s[j + 1] = "/"}
    IN  IF open = {} THEN SubSeq(s, i, Len(s))
        ELSE SubSeq(s, i, Min(open) - 1)
                 \o cxxcomment_sub(s, LineEnd(s, Min(open)) + 1)

\* self.literal_qobject.sub('""', s): r'"[^\n]*Q_OBJECT[^\n]*"', from
\* position i on.  Both [^\n]* are greedy: a match runs from a double quote
\* to the last double quote of the line that has a Q_OBJECT before it.
RECURSIVE literal_qobject_sub(_, _)
literal_qobject_sub(s, i) ==
    LET close(j) == {q \in (j + 2)..LineEnd(s, j) :
                        /\ s[q] = "\""
                        /\ \E m \in (j + 1)..(q - 1) :
                              m + 7 < q /\ At(s, m, MacroWord)}
        open == {j \in i..Len(s) : s[j] = "\"" /\ close(j) # {}}
    IN  IF open = {} THEN SubSeq(s, i, Len(s))
        ELSE SubSeq(s, i, Min(open) - 1) \o <<"\"", "\"">>
                 \o literal_qobject_sub(s, Max(close(Min(open))) + 1)

\* self.qo_search.search(s): r'[^A-Za-z0-9]Q_OBJECT[^A-Za-z0-9]'
qo_search(s) ==
    \E i \in 2..(Len(s) - 8) :
        /\ At(s, i, MacroWord)
        /\ s[i - 1] \notin Alnum
        /\ s[i + 8] \notin Alnum

\* the text the patterns are matched on (lines 221-226, 304-309, 404-408),
\* character by character
Contents(opts, text) ==
    literal_qobject_sub(
        IF opts.gobble_comments # 0
        THEN cxxcomment_sub(ccomment_sub(Chars(text), 1), 1)
        ELSE Chars(text), 1)

\* the first position from i on that holds no whitespace
SkipWs(s, i) ==
    LET rest == {j \in i..Len(s) : s[j] \notin Whitespace}
    IN  IF rest = {} THEN Len(s) + 1 ELSE Min(rest)

\* s holds, from position i on, a double quote, the name and a double
\* quote
QuotedAt(s, i, name) ==
    /\ i + Len(name) + 1 <= Len(s)
    /\ s[i] = "\""
    /\ \A k \in 1..Len(name) : s[i + k] = name[k]
    /\ s[i + Len(name) + 1] = "\""

\* re.search(r'^\s*#\s*include\s+"%s"' % re.escape(name), s, re.M), line 241:
\* the escaped name matches itself
inc_moc_cpp(s, name) ==
    \E p \in 1..Len(s) :
        /\ s[p] = "#"
        /\ \E q \in 1..p :
              /\ q = 1 \/ s[q - 1] = "\n"
              /\ \A k \in q..(p - 1) : s[k] \in Whitespace
        /\ LET a == SkipWs(s, p + 1) IN
           /\ At(s, a, IncludeWord)
           /\ LET b == SkipWs(s, a + 7) IN
              b > a + 7 /\ QuotedAt(s, b, Chars(name))

(***************************************************************************)
(* re.search(pattern, string) with a pattern made of a file name (lines    *)
(* 282-286, 337).  The pattern is read as Python's re reads it: into       *)
(* items that match one character, assertions, parentheses, bars and       *)
(* repeats.  Whether it matches is computed on sets of positions: the      *)
(* positions a match can have reached after each item.  That is exact for  *)
(* the patterns read here, which have no back reference, no lookaround,    *)
(* no atomic group and no possessive repeat; for a pattern that has one,   *)
(* and for \x, \u, \U, \N, octal escapes, inline flags, named groups and   *)
(* repeat counts of more than three digits, re_compile has no value.       *)
(***************************************************************************)
\* an item of a pattern: k is "chr" (one character: of chars, of a range of
\* ranges, of a class of cls, or none of them when neg), "at" (an assertion,
\* named by chars), "(", ")", "|" or "rep" (lo to hi times the item before
\* it, hi = -1 for no limit)
Item(k) ==
    [k |-> k, neg |-> FALSE, chars |-> {}, ranges |-> {}, cls |-> {},
     lo |-> 0, hi |-> 0]

LITERAL(c) == [Item("chr") EXCEPT !.chars = {c}]
ANY == [Item("chr") EXCEPT !.neg = TRUE, !.chars = {"\n"}]
CATEGORY(c) == [Item("chr") EXCEPT !.cls = {c}]
AT(c) == [Item("at") EXCEPT !.chars = {c}]
REPEAT(lo, hi) == [Item("rep") EXCEPT !.lo = lo, !.hi = hi]

\* the outcome of reading a part of a pattern: st is "ok", "error" (re.error)
\* or "unread" (outside what is read here)
Read(item, next) == [st |-> "ok", item |-> item, next |-> next]
NotRead(st) == [st |-> st, item |-> Item("none"), next |-> 0]

DIGITS == <<"0", "1", "2", "3", "4", "5", "6", "7", "8", "9">>
ASCIILETTERS == Alnum \ Range(DIGITS)

\* the characters the escapes \a \f \n \r \t \v \\ stand for
ESCAPES ==
    [a |-> "<u0007>", f |-> "\f", n |-> "\n", r |-> "\r", t |-> "\t",
     v |-> "<u000b>"] @@ ("\\" :> "\\")

\* sre_parse._escape: the escape at position i, outside a character set
_escape(p, i) ==
    LET c == p[i + 1] IN
    IF i + 1 > Len(p) THEN NotRead("error")
    ELSE IF c \in {"d", "D", "s", "S", "w", "W"} THEN Read(CATEGORY(c), i + 2)
    ELSE IF c \in {"A", "Z", "b", "B"} THEN Read(AT(c), i + 2)
    ELSE IF c \in DOMAIN ESCAPES THEN Read(LITERAL(ESCAPES[c]), i + 2)
    ELSE IF c \in Range(DIGITS) \cup {"x", "u", "U", "N"} THEN NotRead("unread")
    ELSE IF c \in ASCIILETTERS THEN NotRead("error")
    ELSE Read(LITERAL(c), i + 2)

\* sre_parse._class_escape: the escape at position i, inside a set
_class_escape(p, i) ==
    LET c == p[i + 1] IN
    IF i + 1 > Len(p) THEN NotRead("error")
    ELSE IF c = "b" THEN Read(LITERAL("<u0008>"), i + 2)
    ELSE IF c \in DOMAIN ESCAPES THEN Read(LITERAL(ESCAPES[c]), i + 2)
    ELSE IF c \in {"d", "D", "s", "S", "w", "W"} THEN Read(CATEGORY(c), i + 2)
    ELSE IF c \in Range(DIGITS) \cup {"x", "u", "U", "N"} THEN NotRead("unread")
    ELSE IF c \in ASCIILETTERS THEN NotRead("error")
    ELSE Read(LITERAL(c), i + 2)

\* the members of the character set whose next member starts at position
\* i, added to those of acc, up to the closing bracket
RECURSIVE _set(_, _, _, _)
_set(p, i, acc, rank) ==
    LET empty == acc.chars = {} /\ acc.ranges = {} /\ acc.cls = {}
        member(k) == IF p[k] = "\\" THEN _class_escape(p, k)
                     ELSE Read(LITERAL(p[k]), k + 1)
        code1 == member(i)
        dash == code1.next
        code2 == member(dash + 1)
        with(x, y) == [x EXCEPT !.chars = @ \cup y.chars, !.cls = @ \cup y.cls]
        lo == rank[CHOOSE c \in code1.item.chars : TRUE]
        hi == rank[CHOOSE c \in code2.item.chars : TRUE]
    IN  IF i > Len(p) THEN NotRead("error")
        ELSE IF p[i] = "]" /\ ~empty THEN Read(acc, i + 1)
        ELSE IF code1.st # "ok" THEN code1
        ELSE IF dash <= Len(p) /\ p[dash] = "-"
        THEN (IF dash + 1 > Len(p) THEN NotRead("error")
              ELSE IF p[dash + 1] = "]"
              THEN Read(with(with(acc, code1.item), LITERAL("-")), dash + 2)
              ELSE IF code2.st # "ok" THEN code2
              ELSE IF code1.item.cls # {} \/ code2.item.cls # {} THEN NotRead("error")
              ELSE IF hi < lo THEN NotRead("error")
              ELSE _set(p, code2.next, [acc EXCEPT !.ranges = @ \cup {<<lo, hi>>}], rank))
        ELSE _set(p, dash, with(acc, code1.item), rank)

\* the repeat '{m,n}' at position i: its counts and where it ends; a '{'
\* that starts no repeat is a literal
_braces(p, i) ==
    LET stop(k) == Min({j \in k..(Len(p) + 1) : j > Len(p) \/ p[j] \notin Range(DIGITS)})
        a == stop(i + 1)
        comma == a <= Len(p) /\ p[a] = ","
        b == IF comma THEN stop(a + 1) ELSE a
        value(from, to) ==
            IntOf([k \in 1..(to - from + 1) |->
                      (CHOOSE v \in 1..10 : DIGITS[v] = p[from + k - 1]) - 1],
                  1, to - from + 1)
        few == a - (i + 1) <= 3 /\ (comma => b - (a + 1) <= 3)
        min == value(i + 1, a - 1)
        max == IF ~comma THEN min ELSE IF b = a + 1 THEN -1 ELSE value(a + 1, b - 1)
    IN  IF (i + 1 <= Len(p) /\ p[i + 1] = "}") \/ ~(b <= Len(p) /\ p[b] = "}")
        THEN Read(LITERAL("{"), i + 1)
        ELSE IF ~few THEN NotRead("unread")
        ELSE IF max >= 0 /\ max < min THEN NotRead("error")
        ELSE Read(REPEAT(min, max), b + 1)

\* sre_parse._parse: the items of the pattern p from position i on, behind
\* the items acc
RECURSIVE _parse(_, _, _, _)
_parse(p, i, acc, rank) ==
    LET c == p[i]
        then(r) == IF r.st # "ok" THEN [st |-> r.st, items |-> <<>>]
                   ELSE _parse(p, r.next, Append(acc, r.item), rank)
        before == IF acc = <<>> THEN "|" ELSE acc[Len(acc)].k
        \* a repeat whose operator ends before position j: it needs an item
        \* to repeat that is no assertion and no repeat; a '?' behind it
        \* makes it lazy, a '+' possessive
        repeat(r) ==
            IF r.st # "ok" \/ r.item.k # "rep" THEN then(r)
            ELSE IF before \in {"|", "(", "at", "rep"} THEN then(NotRead("error"))
            ELSE IF r.next <= Len(p) /\ p[r.next] = "+" THEN then(NotRead("unread"))
            ELSE IF r.next <= Len(p) /\ p[r.next] = "?" THEN then(Read(r.item, r.next + 1))
            ELSE then(r)
        negate == i + 1 <= Len(p) /\ p[i + 1] = "^"
    IN  IF i > Len(p) THEN [st |-> "ok", items |-> acc]
        ELSE CASE c = "\\" -> then(_escape(p, i))
               [] c = "[" -> then(_set(p, IF negate THEN i + 2 ELSE i + 1,
                                       [Item("chr") EXCEPT !.neg = negate], rank))
               [] c = "." -> then(Read(ANY, i + 1))
               [] c = "^" -> then(Read(AT("^"), i + 1))
               [] c = "$" -> then(Read(AT("$"), i + 1))
               [] c \in {"|", ")"} -> then(Read(Item(c), i + 1))
               [] c = "(" ->
                    IF ~(i + 1 <= Len(p) /\ p[i + 1] = "?") THEN then(Read(Item("("), i + 1))
                    ELSE IF i + 2 <= Len(p) /\ p[i + 2] = ":" THEN then(Read(Item("("), i + 3))
                    ELSE then(NotRead("unread"))
               [] c = "*" -> repeat(Read(REPEAT(0, -1), i + 1))
               [] c = "+" -> repeat(Read(REPEAT(1, -1), i + 1))
               [] c = "?" -> repeat(Read(REPEAT(0, 1), i + 1))
               [] c = "{" -> repeat(_braces(p, i))
               [] OTHER -> then(Read(LITERAL(c), i + 1))

\* how many groups are open before each item, and behind the last
Depths(items) ==
    [j \in 1..(Len(items) + 1) |->
        Cardinality({k \in 1..(j - 1) : items[k].k = "("})
            - Cardinality({k \in 1..(j - 1) : items[k].k = ")"})]

\* re.compile: r is what _parse made of the pattern; "error" also for a
\* parenthesis without its partner
re_compile(r) ==
    LET d == Depths(r.items)
        balanced == /\ d[Len(r.items) + 1] = 0
                    /\ \A j \in 1..Len(r.items) : r.items[j].k = ")" => d[j] > 0
    IN  CASE r.st = "ok" /\ balanced -> r
          [] r.st = "ok" /\ ~balanced -> [st |-> "error", items |-> <<>>]
          [] r.st = "error" -> r

\* \w: letters, digits and the underscore, among the characters that rank
\* places
Word(x, c) ==
    CASE c \in Alnum \cup {"_"} \cup x.digits -> TRUE
      [] c \in DOMAIN x.rank -> FALSE

\* the item matches the character c
Matches(x, item, c) ==
    LET in == \/ c \in item.chars
              \/ \E r \in item.ranges : r[1] <= x.rank[c] /\ x.rank[c] <= r[2]
              \/ "d" \in item.cls /\ c \in x.digits
              \/ "D" \in item.cls /\ c \notin x.digits
              \/ "s" \in item.cls /\ c \in Whitespace
              \/ "S" \in item.cls /\ c \notin Whitespace
              \/ "w" \in item.cls /\ Word(x, c)
              \/ "W" \in item.cls /\ ~Word(x, c)
    IN  in # item.neg

\* the assertion holds at position q of the text: before the character q,
\* or behind the last one
Holds(x, item, q) ==
    LET n == Len(x.s)
        word(k) == k >= 1 /\ k <= n /\ Word(x, x.s[k])
    IN  CASE item.chars = {"^"} -> q = 1
          [] item.chars = {"A"} -> q = 1
          [] item.chars = {"$"} -> q = n + 1 \/ (q = n /\ x.s[n] = "\n")
          [] item.chars = {"Z"} -> q = n + 1
          [] item.chars = {"b"} -> word(q - 1) # word(q)
          [] item.chars = {"B"} -> n > 0 /\ word(q - 1) = word(q)

\* the closing parenthesis of the group that item i opens
Mate(x, i) == Min({j \in (i + 1)..Len(x.t) : x.t[j].k = ")" /\ x.d[j + 1] = x.d[i]})

\* The positions a match of the items i..j can end at when it starts at a
\* position of P.  m_sub takes the items as branches between bars, m_seq
\* as one branch, m_atom takes one item or group (i..e), m_rep repeats it
\* lo to hi times, and m_more adds to seen what further repeats reach from
\* the positions F last reached.
RECURSIVE m_sub(_, _, _, _), m_seq(_, _, _, _), m_atom(_, _, _, _)
RECURSIVE m_rep(_, _, _, _, _, _), m_more(_, _, _, _, _, _)
m_sub(x, i, j, P) ==
    LET bars == {k \in i..j : x.t[k].k = "|" /\ x.d[k] = x.d[i]}
    IN  IF bars = {} THEN m_seq(x, i, j, P)
        ELSE m_seq(x, i, Min(bars) - 1, P) \cup m_sub(x, Min(bars) + 1, j, P)

m_seq(x, i, j, P) ==
    IF i > j \/ P = {} THEN P
    ELSE LET e == IF x.t[i].k = "(" THEN Mate(x, i) ELSE i
             rep == e + 1 <= j /\ x.t[e + 1].k = "rep"
         IN  IF rep
             THEN m_seq(x, e + 2, j, m_rep(x, i, e, x.t[e + 1].lo, x.t[e + 1].hi, P))
             ELSE m_seq(x, e + 1, j, m_atom(x, i, e, P))

m_atom(x, i, e, P) ==
    CASE x.t[i].k = "chr" ->
            {q + 1 : q \in {q \in P : q <= Len(x.s) /\ Matches(x, x.t[i], x.s[q])}}
      [] x.t[i].k = "at" -> {q \in P : Holds(x, x.t[i], q)}
      [] x.t[i].k = "(" -> m_sub(x, i + 1, e - 1, P)

m_rep(x, i, e, lo, hi, P) ==
    IF lo > 0
    THEN m_rep(x, i, e, lo - 1, IF hi < 0 THEN hi ELSE hi - 1, m_atom(x, i, e, P))
    ELSE m_more(x, i, e, hi, P, P)

m_more(x, i, e, n, F, seen) ==
    IF n = 0 \/ F = {} THEN seen
    ELSE LET Q == m_atom(x, i, e, F) \ seen
         IN  m_more(x, i, e, IF n < 0 THEN n ELSE n - 1, Q, seen \cup Q)

\* the compiled pattern r searched in the text s: <<TRUE>> when it matches
\* somewhere, <<FALSE>> when it does not, <<>> when it did not compile
search(r, s, rank, digits) ==
    IF r.st = "error" THEN <<>>
    ELSE <<m_sub([s |-> s, t |-> r.items, d |-> Depths(r.items), rank |-> rank,
                  digits |-> digits],
                 1, Len(r.items), 1..(Len(s) + 1)) # {}>>

\* re.search(pattern, s): <<>> stands for re.error
re_search(pattern, s, rank, digits) ==
    search(re_compile(_parse(pattern, 1, <<>>, rank)), s, rank, digits)

\* re.search(r'#include\s+"%s"' % name, s), lines 282-286 and 337: the
\* name is put into the pattern as it is
inc_x_moc(s, name) ==
    re_search(<<"#">> \o IncludeWord \o <<"\\", "s", "+", "\"">> \o Chars(name) \o <<"\"">>,
              s, CharRank, Digits)

\* str(node): the path from the directory of the build script
Str(f) == (IF f.dir = "" THEN <<>> ELSE <<f.dir, "/">>) \o f.base \o f.ext

\* env.subst('$k'): the value of k with the variable it names expanded, ''
\* when k is not set
RECURSIVE Expand(_, _)
Expand(e, v) ==
    IF v = <<>> THEN <<>>
    ELSE IF Len(v) = 1
    THEN (IF v[1] = "$CXXFILESUFFIX"
          THEN (IF "CXXFILESUFFIX" \in DOMAIN e THEN e["CXXFILESUFFIX"] ELSE <<>>)
          ELSE v)
    ELSE Expand(e, SubSeq(v, 1, Len(v) \div 2))
             \o Expand(e, SubSeq(v, (Len(v) \div 2) + 1, Len(v)))

subst(e, k) == IF k \in DOMAIN e THEN Expand(e, e[k]) ELSE <<>>

\* the options of a scanner that scans whatever QT5_AUTOSCAN holds
create_automoc_options_always_scan(e) ==
    LET val(k) == int(subst(e, k))
        opt(k) == IF val(k) = <<>> THEN 0 ELSE val(k)[1]
        auto_cpppath == val("QT5_AUTOMOC_SCANCPPPATH") # <<0>>
        get(k) == IF k \in DOMAIN e THEN e[k] ELSE <<>>
    IN  [auto_scan |-> TRUE,
         auto_scan_strategy |-> opt("QT5_AUTOSCAN_STRATEGY"),
         gobble_comments |-> opt("QT5_GOBBLECOMMENTS"),
         debug |-> opt("QT5_DEBUG"),
         auto_cpppath |-> auto_cpppath,
         cpppaths |-> IF ~auto_cpppath THEN <<>>
                      ELSE IF get("QT5_AUTOMOC_CPPPATH") # <<>>
                           THEN get("QT5_AUTOMOC_CPPPATH")
                           ELSE get("CPPPATH")]

create_automoc_options(e) ==
    LET val(k) == int(subst(e, k))
        opt(k) == IF val(k) = <<>> THEN 0 ELSE val(k)[1]
        auto_cpppath == val("QT5_AUTOMOC_SCANCPPPATH") # <<0>>
        get(k) == IF k \in DOMAIN e THEN e[k] ELSE <<>>
    IN  [auto_scan |-> val("QT5_AUTOSCAN") # <<0>>,
         auto_scan_strategy |-> opt("QT5_AUTOSCAN_STRATEGY"),
         gobble_comments |-> opt("QT5_GOBBLECOMMENTS"),
         debug |-> opt("QT5_DEBUG"),
         auto_cpppath |-> auto_cpppath,
         cpppaths |-> IF ~auto_cpppath THEN <<>>
                      ELSE IF get("QT5_AUTOMOC_CPPPATH") # <<>>
                           THEN get("QT5_AUTOMOC_CPPPATH")
                           ELSE get("CPPPATH")]

\* find_file(filename, paths, env.File): <<node>>, <<>> for None
find_file(fsys, base, ext, paths) ==
    LET node(i) == [dir |-> paths[i], base |-> base, ext |-> ext]
        hit == {i \in 1..Len(paths) : node(i) \in DOMAIN fsys}
    IN  IF hit = {} THEN <<>> ELSE <<node(Min(hit))>>

\* the loop over header_extensions (lines 211-227, 293-310): the header of
\* the first extension under which one is found
find_header(a, cpp) ==
    LET exts == header_extensions(a.world)
        paths == <<cpp.dir>> \o a.opts.cpppaths
        found == {i \in 1..Len(exts) : find_file(a.fs, cpp.base, exts[i], paths) # <<>>}
    IN  IF found = {} THEN <<>>
        ELSE find_file(a.fs, cpp.base, exts[Min(found)], paths)

\* the target env.Moc5(src) / env.XMoc5(src) derives from its source: in
\* the source's directory, the affixes chosen by the source's extension
BuilderTarget(a, name, src) ==
    LET d == a.builders.table[name][src.ext]
    IN  [dir |-> src.dir, base |-> subst(a.env, d[2]) \o src.base,
         ext |-> subst(a.env, d[3])]

\* a step registered with the host: which builder makes which target from
\* which source
Step(name, src, tgt) == [builder |-> name, source |-> src, target |-> tgt]

\* self.objBuilder(moc_cpp): the object node (lines 368, 251)
objBuilder(a, src) ==
    LET shared == a.objBuilderName = "SharedObject"
        tgt == [dir |-> src.dir,
                base |-> subst(a.env, IF shared THEN "SHOBJPREFIX" ELSE "OBJPREFIX")
                            \o src.base,
                ext |-> subst(a.env, IF shared THEN "SHOBJSUFFIX" ELSE "OBJSUFFIX")]
    IN  [kind |-> "node", name |-> Str(tgt), builder |-> TRUE, src |-> src]

\* the header is found and reading it raises (lines 221, 304: no try)
HeaderRaises(a, h) == h # <<>> /\ _bytes_to_str(a.fs[h[1]]) = <<>>

\* the header is found and its contents hold the macro (lines 232, 315)
HeaderHasMacro(a, h) == h # <<>> /\ qo_search(Contents(a.opts, a.fs[h[1]]))

__automoc_strategy_simple(a, cpp, cpp_contents, acc) ==
    LET h == find_header(a, cpp)
        moc_cpp == BuilderTarget(a, "Moc5", h[1])
        moc_o == objBuilder(a, moc_cpp)
        acc1 == IF ~HeaderHasMacro(a, h) THEN acc
                ELSE IF inc_moc_cpp(cpp_contents, Str(moc_cpp))
                THEN [acc EXCEPT
                        !.steps = @ \cup {Step("Moc5", Str(h[1]), Str(moc_cpp))},
                        !.depends = @ \cup {<<Str(cpp), Str(moc_cpp)>>}]
                ELSE [acc EXCEPT
                        !.steps = @ \cup {Step("Moc5", Str(h[1]), Str(moc_cpp)),
                                          Step(a.objBuilderName, Str(moc_cpp),
                                               moc_o.name)},
                        !.out = Append(@, moc_o)]
        moc == BuilderTarget(a, "Moc5", cpp)
    IN  IF HeaderRaises(a, h) THEN [acc EXCEPT !.raised = TRUE]
        ELSE IF qo_search(cpp_contents)
        THEN [acc1 EXCEPT !.steps = @ \cup {Step("Moc5", Str(cpp), Str(moc))},
                          !.ignores = @ \cup {<<Str(moc), Str(moc)>>}]
        ELSE acc1

\* out_sources.pop(idx) for the first entry made from a file whose string
\* representation is h_moc (lines 322-326)
PopFirst(out, h_moc) ==
    LET hit == {i \in 1..Len(out) :
                   /\ out[i].kind = "node" /\ out[i].builder
                   /\ Str(out[i].src) = h_moc}
    IN  IF hit = {} THEN out
        ELSE SubSeq(out, 1, Min(hit) - 1) \o SubSeq(out, Min(hit) + 1, Len(out))

\* the include-driven strategy that falls back only when neither inclusion
\* pattern matched
__automoc_strategy_include_driven_unmatched(a, cpp, cpp_contents, acc) ==
    LET h_moc == subst(a.env, "QT5_XMOCHPREFIX") \o cpp.base
                    \o subst(a.env, "QT5_XMOCHSUFFIX")
        cxx_moc == subst(a.env, "QT5_XMOCCXXPREFIX") \o cpp.base
                      \o subst(a.env, "QT5_XMOCCXXSUFFIX")
        inc_h_moc == inc_x_moc(cpp_contents, h_moc)
        inc_cxx_moc == inc_x_moc(cpp_contents, cxx_moc)
        h == find_header(a, cpp)
        from_h == inc_h_moc = <<TRUE>> /\ HeaderHasMacro(a, h)
        from_cxx == inc_cxx_moc = <<TRUE>> /\ qo_search(cpp_contents)
        moc_cpp == BuilderTarget(a, "XMoc5", h[1])
        acc1 == IF from_h
                THEN [acc EXCEPT
                        !.steps = @ \cup {Step("XMoc5", Str(h[1]), Str(moc_cpp))},
                        !.ignores = @ \cup {<<Str(moc_cpp), Str(moc_cpp)>>},
                        !.out = PopFirst(@, h_moc)]
                ELSE acc
        acc2 == IF from_cxx
                THEN [acc1 EXCEPT
                        !.steps = @ \cup {Step("XMoc5", Str(cpp), cxx_moc)},
                        !.ignores = @ \cup {<<cxx_moc, cxx_moc>>}]
                ELSE acc1
    IN  \* re.search raises re.error (line 286)
        IF inc_h_moc = <<>> THEN [acc EXCEPT !.raised = TRUE]
        ELSE IF inc_h_moc = <<TRUE>> /\ HeaderRaises(a, h)
        THEN [acc EXCEPT !.raised = TRUE]
        \* re.search raises re.error (line 337)
        ELSE IF inc_cxx_moc = <<>> THEN [acc1 EXCEPT !.raised = TRUE]
        ELSE IF inc_h_moc = <<TRUE>> \/ inc_cxx_moc = <<TRUE>> THEN acc2
        ELSE __automoc_strategy_simple(a, cpp, cpp_contents, acc)

\* __automoc_strategy_include_driven (lines 266-356): the predicted names
\* are searched as patterns; it falls back when it added no step
__automoc_strategy_include_driven(a, cpp, cpp_contents, acc) ==
    LET h_moc == subst(a.env, "QT5_XMOCHPREFIX") \o cpp.base
                    \o subst(a.env, "QT5_XMOCHSUFFIX")
        cxx_moc == subst(a.env, "QT5_XMOCCXXPREFIX") \o cpp.base
                      \o subst(a.env, "QT5_XMOCCXXSUFFIX")
        inc_h_moc == inc_x_moc(cpp_contents, h_moc)
        inc_cxx_moc == inc_x_moc(cpp_contents, cxx_moc)
        h == find_header(a, cpp)
        from_h == inc_h_moc = <<TRUE>> /\ HeaderHasMacro(a, h)
        from_cxx == inc_cxx_moc = <<TRUE>> /\ qo_search(cpp_contents)
        moc_cpp == BuilderTarget(a, "XMoc5", h[1])
        acc1 == IF from_h
                THEN [acc EXCEPT
                        !.steps = @ \cup {Step("XMoc5", Str(h[1]), Str(moc_cpp))},
                        !.ignores = @ \cup {<<Str(moc_cpp), Str(moc_cpp)>>},
                        !.out = PopFirst(@, h_moc)]
                ELSE acc
        acc2 == IF from_cxx
                THEN [acc1 EXCEPT
                        !.steps = @ \cup {Step("XMoc5", Str(cpp), cxx_moc)},
                        !.ignores = @ \cup {<<cxx_moc, cxx_moc>>}]
                ELSE acc1
    IN  \* re.search raises re.error (line 286)
        IF inc_h_moc = <<>> THEN [acc EXCEPT !.raised = TRUE]
        ELSE IF inc_h_moc = <<TRUE>> /\ HeaderRaises(a, h)
        THEN [acc EXCEPT !.raised = TRUE]
        \* re.search raises re.error (line 337)
        ELSE IF inc_cxx_moc = <<>> THEN [acc1 EXCEPT !.raised = TRUE]
        ELSE IF from_h \/ from_cxx THEN acc2
        ELSE __automoc_strategy_simple(a, cpp, cpp_contents, acc)

\* one pass of the loop of __call__ over obj (lines 381-418)
ScanObj(a, obj, acc) ==
    IF obj.kind = "str" THEN acc
    ELSE IF ~obj.builder THEN acc
    ELSE IF obj.src.ext \notin Range(cxx_suffixes) THEN acc
    ELSE IF obj.src \notin DOMAIN a.fs THEN acc
    ELSE IF _bytes_to_str(a.fs[obj.src]) = <<>> THEN acc
    ELSE LET cpp_contents == Contents(a.opts, a.fs[obj.src]) IN
         IF a.opts.auto_scan_strategy = 0
         THEN __automoc_strategy_simple(a, obj.src, cpp_contents, acc)
         ELSE __automoc_strategy_include_driven(a, obj.src, cpp_contents, acc)

RECURSIVE ScanFrom(_, _, _, _)
ScanFrom(a, source, i, acc) ==
    IF i > Len(source) \/ acc.raised THEN acc
    ELSE ScanFrom(a, source, i + 1, ScanObj(a, source[i], acc))

\* sorted(set(out_sources), key = lambda entry : str(entry)) of the entries
\* S (lines 430-431).  The sort is stable: entries with the same string,
\* a bare string and a node of that name, stay in the order in which the
\* set yields them, which their hashes decide.  Every ascending order of S
\* is an outcome.
RECURSIVE sorted(_)
sorted(S) ==
    IF S = {} THEN {<<>>}
    ELSE LET least == {x \in S : \A y \in S : ~StrLess(y.name, x.name)}
         IN  UNION {{<<m>> \o t : t \in sorted(S \ {m})} : m \in least}

\* which object builder each emitter uses (lines 434-435)
objBuilderName(emitter) ==
    IF emitter = "AutomocShared" THEN "SharedObject" ELSE "StaticObject"

\* _Automoc.__call__(target, source, env) of the given emitter: what it
\* returns as the source list, what it registers with the host, and the
\* env attribute of the three builders, which it sets to env (lines 371-376)
\* and puts back after the loop (lines 421-423); an exception raised in the
\* loop leaves __call__ before that.  The outcomes differ in the order of
\* the entries that have the same string.
__call__(emitter, e, b, w, fsys, benv, source) ==
    LET acc0 == [out |-> source, steps |-> {}, depends |-> {}, ignores |-> {},
                 raised |-> FALSE]
    IN  UNION {{[emitter |-> emitter, done |-> TRUE, raised |-> acc.raised,
                 out |-> out,
                 steps |-> acc.steps, depends |-> acc.depends,
                 ignores |-> acc.ignores,
                 benv |-> IF acc.raised
                          THEN [objBuilder |-> "env", Moc5 |-> "env", XMoc5 |-> "env"]
                          ELSE benv] :
                   out \in IF acc.raised THEN {<<>>} ELSE sorted(Range(acc.out))} :
               \* acc is what the loop over the sources leaves
               acc \in {IF opts.auto_scan
                        THEN ScanFrom([env |-> e, builders |-> b, world |-> w,
                                       fs |-> fsys, opts |-> opts,
                                       objBuilderName |-> objBuilderName(emitter)],
                                      source, 1, acc0)
                        ELSE acc0 : opts \in {create_automoc_options(e)}}}

(***************************************************************************)
(* The inputs of the scanner.                                              *)
(***************************************************************************)
\* bounds: how many fragments a header and a source text are made of, and
\* how long a source list is
MaxHeaderFrags == 3
MaxCppFrags == 3
MaxSources == 3

RECURSIVE Concat(_)
Concat(ss) == IF ss = <<>> THEN <<>> ELSE Head(ss) \o Concat(Tail(ss))

\* the texts made of at most n fragments of the pool
Texts(pool, n) == {Concat(ss) : ss \in SeqsUpTo(pool, n)}

File(dir, base, ext) == [dir |-> dir, base |-> <<base>>, ext |-> <<".", ext>>]

NoFile == [dir |-> "", base |-> <<>>, ext |-> <<>>]

\* the object file a host builder makes from a source file
Obj(f) ==
    [kind |-> "node", name |-> Str([f EXCEPT !.ext = <<".", "o">>]),
     builder |-> TRUE, src |-> f]

\* the fragments of C++ text
MARK == <<" ", "Q_OBJECT", " ">>
STR == <<"\"", "x", "\"">>
STRMARK == <<"\"", "Q_OBJECT", "\"">>
STRURL == <<"\"", "Q_OBJECT", " ", "/", "/", "x", "\"">>
BLOCKMARK == <<"/", "*", " ", "Q_OBJECT", " ", "*", "/">>
LINEMARK == <<"/", "/", " ", "Q_OBJECT", " ">>
BLOCK == <<"/", "*", " ", "x", " ", "*", "/">>
LINE == <<"/", "/">>
NL == <<"\n">>
Include(name) == <<"#", "include", " ", "\"">> \o name \o <<"\"">>

HeaderPool == {MARK, STR, STRMARK, STRURL, BLOCKMARK, LINEMARK, NL}

CppPool ==
    {Include(<<"moc_", "w", ".", "cc">>), Include(<<"moc_", "w", ".", "cpp">>),
     Include(<<"w", ".", "moc">>), Include(<<"moc_", "w", "x", "cpp">>),
     MARK, BLOCK, LINE, NL}

\* the environment after generate on a host whose C++ files end in sfx,
\* with the options the caller sets afterwards
HostEnv(sfx) ==
    [QT5DIR |-> EnvQt5, CXXFILESUFFIX |-> sfx,
     OBJPREFIX |-> <<>>, OBJSUFFIX |-> <<".", "o">>,
     SHOBJPREFIX |-> <<>>, SHOBJSUFFIX |-> <<".", "os">>]

ScanWorld == [BaseWorld EXCEPT !.fsx = Installed(EnvQt5, AllCommands, {""})]

Generated(sfx) == generate(HostEnv(sfx), NoEmitters, NoBuilders, ScanWorld, <<>>)

CxxSuffixes == {<<".", "cc">>, <<".", "cpp">>}

ScanInit(sfx, options, files, srcs, emitter) ==
    LET g == Generated(sfx) IN
    /\ env = Updated(g.env, options)
    /\ emitters = g.emitters
    /\ builders = g.builders
    /\ world = ScanWorld
    /\ det = g.det
    /\ gen = [IdleGen EXCEPT !.calls = 1, !.status = g.status]
    /\ fs = files
    /\ sources = srcs
    /\ am = [IdleAm EXCEPT !.emitter = emitter,
                           !.benv = [objBuilder |-> "host", Moc5 |-> "host",
                                     XMoc5 |-> "host"]]
    /\ call = NoCall

Flag == {<<"0">>, <<"1">>}

WCpp == File("", "w", "cpp")
WH == File("", "w", "h")

\* the emitter runs once, when the host builds a program or a library from
\* the source list
Automoc ==
    /\ ~am.done
    /\ am.emitter \in Range(emitters.PROGEMITTER) \cup Range(emitters.SHLIBEMITTER)
                         \cup Range(emitters.LIBEMITTER)
    /\ am' \in __call__(am.emitter, env, builders, world, fs, am.benv, sources)
    /\ UNCHANGED <<env, emitters, builders, world, det, gen, fs, sources, call>>

(***************************************************************************)
(* SpecScanH: one source w.cpp beside its header w.h, over every header    *)
(* text of at most MaxHeaderFrags fragments.                               *)
(***************************************************************************)
SmallCpp ==
    {<<"x", "\n">>, <<"x", "\n">> \o Include(<<"moc_", "w", ".", "cc">>) \o NL, MARK}

InitScanH ==
    \E h \in Texts(HeaderPool, MaxHeaderFrags), c \in SmallCpp,
       gobble \in Flag, strategy \in Flag :
       ScanInit(<<".", "cc">>,
                [QT5_GOBBLECOMMENTS |-> gobble, QT5_AUTOSCAN_STRATEGY |-> strategy],
                (WCpp :> c) @@ (WH :> h), <<Obj(WCpp)>>, "AutomocStatic")

SpecScanH == InitScanH /\ [][Automoc]_vars

(***************************************************************************)
(* SpecScanC: one source w.cpp over every source text of at most           *)
(* MaxCppFrags fragments, without a header, with a header that holds the   *)
(* macro and with one that does not.                                       *)
(***************************************************************************)
SmallHeaders == {<<>>, <<<<"x", "\n">>>>, <<<<"x", "\n", "Q_OBJECT", "\n">>>>}

InitScanC ==
    \E c \in Texts(CppPool, MaxCppFrags), h \in SmallHeaders, sfx \in CxxSuffixes,
       gobble \in Flag, strategy \in Flag :
       ScanInit(sfx,
                [QT5_GOBBLECOMMENTS |-> gobble, QT5_AUTOSCAN_STRATEGY |-> strategy],
                (WCpp :> c) @@ [f \in (IF h = <<>> THEN {} ELSE {WH}) |-> h[1]],
                <<Obj(WCpp)>>, "AutomocStatic")

SpecScanC == InitScanC /\ [][Automoc]_vars

(***************************************************************************)
(* SpecScanI: the include-driven strategy on one source whose text is made *)
(* of at most MaxCppFrags inclusions and macros.  The source is w.cpp,     *)
(* w+.cxx or w(.cpp: as a pattern the second name repeats its w, the third *)
(* does not compile.                                                       *)
(***************************************************************************)
PlusCxx == [dir |-> "", base |-> <<"w", "+">>, ext |-> <<".", "cxx">>]
ParenCpp == [dir |-> "", base |-> <<"w", "(">>, ext |-> <<".", "cpp">>]

IncludeSources == {WCpp, PlusCxx, ParenCpp}

\* the header beside a source
HeaderOf(f) == [f EXCEPT !.ext = <<".", "h">>]

IncludePool ==
    {Include(<<"moc_", "w", ".", "cpp">>), Include(<<"w", ".", "moc">>),
     Include(<<"moc_", "w", "x", "cpp">>), Include(<<"moc_", "w", "+", ".", "cpp">>),
     MARK, NL}

InitScanI ==
    \E src \in IncludeSources, c \in Texts(IncludePool, MaxCppFrags),
       h \in SmallHeaders, gobble \in Flag :
       ScanInit(<<".", "cpp">>,
                [QT5_GOBBLECOMMENTS |-> gobble, QT5_AUTOSCAN_STRATEGY |-> <<"1">>],
                (src :> c) @@ [f \in (IF h = <<>> THEN {} ELSE {HeaderOf(src)}) |-> h[1]],
                <<Obj(src)>>, "AutomocShared")

SpecScanI == InitScanI /\ [][Automoc]_vars

(***************************************************************************)
(* SpecScanL: every source list of at most MaxSources entries.             *)
(***************************************************************************)
VCpp == File("", "v", "cpp")
VHpp == File("inc", "v", "hpp")
\* the file generated from w.h on a host whose C++ files end in sfx
MocW(sfx) == [dir |-> "", base |-> <<"moc_", "w">>, ext |-> sfx]

\* a binary object, the bare string of its name, the object of a Fortran
\* source and the object of a source that is not generated yet; the names
\* hx.o and hh.o differ in their second character
Binary == [kind |-> "node", name |-> <<"hh", ".", "o">>, builder |-> FALSE, src |-> NoFile]
BareString == [kind |-> "str", name |-> <<"hh", ".", "o">>, builder |-> FALSE, src |-> NoFile]

\* the entries of a source list; the binary object and the bare string have
\* the same string representation
EntryPool(sfx) ==
    {Obj(WCpp), Obj(VCpp), Obj(MocW(sfx)), Obj([dir |-> "", base |-> <<"h", "x">>, ext |-> <<".", "f">>]),
     Obj(File("", "g", "cxx")), Binary, BareString}

Marked == <<"x", "\n", "Q_OBJECT", "\n">>

\* the hosts and options the lists are scanned under: the suffix of C++
\* files, the strategy, CPPPATH, the text of w.cpp and the emitter
ScanLConfigs ==
    {<<<<".", "cpp">>, <<"0">>, <<"inc">>, <<"x">>, "AutomocStatic">>,
     <<<<".", "cpp">>, <<"1">>, <<>>, Include(<<"moc_", "w", ".", "cpp">>), "AutomocShared">>,
     <<<<".", "cc">>, <<"0">>, <<>>, Include(<<"moc_", "w", ".", "cc">>), "AutomocShared">>,
     <<<<".", "cc">>, <<"1">>, <<"inc">>, <<"x">>, "AutomocStatic">>}

InitScanL ==
    \E k \in ScanLConfigs :
       \E srcs \in SeqsUpTo(EntryPool(k[1]), MaxSources) :
       ScanInit(k[1],
                [QT5_AUTOSCAN_STRATEGY |-> k[2], CPPPATH |-> k[3]],
                (WCpp :> k[4]) @@ (WH :> Marked) @@ (VCpp :> MARK) @@ (VHpp :> Marked),
                srcs, k[5])

SpecScanL == InitScanL /\ [][Automoc]_vars

(***************************************************************************)
(* Properties of the scanner.                                              *)
(***************************************************************************)
\* C++ as a compiler reads it: the class of every token of a text, "code",
\* "str" (a string literal, its quotes included), "block" or "line" (a
\* comment, its delimiters included)
RECURSIVE LexFrom(_, _, _)
LexFrom(s, i, st) ==
    IF i > Len(s) THEN <<>>
    ELSE IF st = "code"
    THEN (IF s[i] = "\"" THEN <<"str">> \o LexFrom(s, i + 1, "str")
          ELSE IF i < Len(s) /\ s[i] = "/" /\ s[i + 1] = "*"
          THEN <<"block", "block">> \o LexFrom(s, i + 2, "block")
          ELSE IF i < Len(s) /\ s[i] = "/" /\ s[i + 1] = "/"
          THEN <<"line", "line">> \o LexFrom(s, i + 2, "line")
          ELSE <<"code">> \o LexFrom(s, i + 1, "code"))
    ELSE IF st = "str"
    THEN (IF s[i] = "\"" THEN <<"str">> \o LexFrom(s, i + 1, "code")
          ELSE IF s[i] = "\n" THEN <<"code">> \o LexFrom(s, i + 1, "code")
          ELSE <<"str">> \o LexFrom(s, i + 1, "str"))
    ELSE IF st = "block"
    THEN (IF i < Len(s) /\ s[i] = "*" /\ s[i + 1] = "/"
          THEN <<"block", "block">> \o LexFrom(s, i + 2, "code")
          ELSE <<"block">> \o LexFrom(s, i + 1, "block"))
    ELSE (IF s[i] = "\n" THEN <<"code">> \o LexFrom(s, i + 1, "code")
          ELSE <<"line">> \o LexFrom(s, i + 1, "line"))

Lex(s) == LexFrom(s, 1, "code")

MacroAt(s) == {i \in 1..Len(s) : s[i] = "Q_OBJECT"}

\* the macro stands in the text outside any string and any comment
MacroInCode(s) == \E i \in MacroAt(s) : Lex(s)[i] = "code"

\* the macro occurs, and only inside the given class of tokens
MacroOnlyIn(s, class) ==
    MacroAt(s) # {} /\ \A i \in MacroAt(s) : Lex(s)[i] = class

\* the first token of the text from position i on that is no blank
PastBlanks(s, i) ==
    LET rest == {j \in i..Len(s) : s[j] \notin {" ", "\n"}}
    IN  IF rest = {} THEN Len(s) + 1 ELSE Min(rest)

\* the tokens of the quoted name stand in the text from position i on
NameAt(s, i, name) == At(s, i, <<"\"">> \o name \o <<"\"">>)

\* the text has the words of an #include of the name anywhere, however
\* they are spaced
MentionsInclude(s, name) ==
    \E p \in 1..Len(s) :
        /\ s[p] = "#"
        /\ LET a == PastBlanks(s, p + 1) IN
           a <= Len(s) /\ s[a] = "include" /\ NameAt(s, PastBlanks(s, a + 1), name)

\* the text has an #include directive of the name as a compiler reads it:
\* '#include', blanks, the quoted name, with nothing but blanks and comments
\* before it on its line
IncludeDirective(s, name) ==
    \E p \in 1..(Len(s) - 1) :
        /\ s[p] = "#" /\ Lex(s)[p] = "code" /\ s[p + 1] = "include"
        /\ LET b == PastBlanks(s, p + 2) IN b > p + 2 /\ NameAt(s, b, name)
        /\ \E q \in 1..p :
              /\ q = 1 \/ (s[q - 1] = "\n" /\ Lex(s)[q - 1] = "code")
              /\ \A k \in q..(p - 1) : s[k] = " " \/ Lex(s)[k] \in {"block", "line"}

MacroDriven == env["QT5_AUTOSCAN_STRATEGY"] = <<"0">>
Gobbling == env["QT5_GOBBLECOMMENTS"] = <<"1">>

\* the file the macro-driven strategy generates from w.h, and its object
MocOfW == MocW(env["CXXFILESUFFIX"])
MocObjOfW == Obj(MocOfW)

\* the steps that run the meta-object compiler
MocSteps == {s \in am.steps : s.builder \in {"Moc5", "XMoc5"}}

HeaderStep == \E s \in MocSteps : s.source = Str(WH)

\* the scanner has run on the single source w.cpp
ScannedW == am.done /\ sources = <<Obj(WCpp)>>

\* the scanner made one step of the meta-object compiler, from w.h, and
\* returned the object compiled from the generated file beside w.o
OneStepAndObject ==
    /\ MocSteps = {Step("Moc5", Str(WH), Str(MocOfW))}
    /\ Step("StaticObject", Str(MocOfW), MocObjOfW.name) \in am.steps
    /\ am.out = <<MocObjOfW, Obj(WCpp)>>

\* the source depends on the generated file and no object of it is returned
EdgeAndNoObject ==
    /\ <<Str(WCpp), Str(MocOfW)>> \in am.depends
    /\ \A i \in 1..Len(am.out) : am.out[i].src # MocOfW

\* C6: the emitter returns its entries without duplicates and in ascending
\* order of their string representation, and it returns the same sequence
\* for every reordering of its source list.
C6_SortedDedupOrderFree ==
    am.done =>
        /\ \A i, j \in 1..Len(am.out) :
              i < j => am.out[i] # am.out[j] /\ ~StrLess(am.out[j].name, am.out[i].name)
        /\ \A p \in Permutations(1..Len(sources)) :
              \A r \in __call__(am.emitter, env, builders, world, fs, am.benv,
                                [i \in 1..Len(sources) |-> sources[p[i]]]) :
                 r.out = am.out

\* C7: macro-driven, the source has no macro, its header w.h has
\* the macro outside any string and comment, and the source has no #include
\* of the generated file: one step of the meta-object compiler, from the
\* header, and the object of the generated file returned beside the input.
C7_MacroOutsideStringsAndComments ==
    (/\ ScannedW /\ MacroDriven /\ WH \in DOMAIN fs
     /\ MacroAt(fs[WCpp]) = {}
     /\ MacroInCode(fs[WH])
     /\ ~MentionsInclude(fs[WCpp], Str(MocOfW)))
    => OneStepAndObject

\* C8: macro-driven, the source has no macro, w.h has the macro
\* and the source has an #include directive of the generated file: the
\* source depends on the generated file and no object of it is returned.
C8_IncludeDirectiveSuppressesObject ==
    (/\ ScannedW /\ MacroDriven /\ WH \in DOMAIN fs
     /\ MacroAt(fs[WCpp]) = {}
     /\ MacroInCode(fs[WH])
     /\ IncludeDirective(fs[WCpp], Str(MocOfW)))
    => EdgeAndNoObject

\* C9: a header whose only macro is inside a string literal never
\* makes the scanner run the meta-object compiler; a header whose only macro
\* is inside a block comment does not when QT5_GOBBLECOMMENTS is set and
\* does when it is not.
C9_StringAndCommentRule ==
    (ScannedW /\ WH \in DOMAIN fs) =>
        /\ MacroOnlyIn(fs[WH], "str") => ~HeaderStep
        /\ MacroOnlyIn(fs[WH], "block") => (HeaderStep <=> ~Gobbling)

\* C10: with strategy 1, for a source that includes neither
\* moc_w.cpp nor w.moc, the scanner makes the steps and the edges and
\* returns the list it makes and returns with strategy 0.
C10_FallbackIsMacroDriven ==
    (/\ ScannedW /\ env["QT5_AUTOSCAN_STRATEGY"] = <<"1">>
     /\ ~MentionsInclude(fs[WCpp], <<"moc_", "w", ".", "cpp">>)
     /\ ~MentionsInclude(fs[WCpp], <<"w", ".", "moc">>))
    => \E r \in __call__(am.emitter,
                          [env EXCEPT !["QT5_AUTOSCAN_STRATEGY"] = <<"0">>],
                          builders, world, fs, am.benv, sources) :
          /\ am.steps = r.steps
          /\ am.depends = r.depends
          /\ am.ignores = r.ignores
          /\ am.out = r.out

(***************************************************************************)
(* EnableQt5Modules (enable_modules, lines 900-1037).  A module name is    *)
(* the sequence <<"Qt", rest>>, a list element is a sequence of strings.   *)
(***************************************************************************)
validModules ==
    <<<<"Qt", "Core">>, <<"Qt", "Gui">>, <<"Qt", "Multimedia">>,
      <<"Qt", "MultimediaQuick_p">>, <<"Qt", "MultimediaWidgets">>,
      <<"Qt", "Network">>, <<"Qt", "PlatformSupport">>, <<"Qt", "Qml">>,
      <<"Qt", "QmlDevTools">>, <<"Qt", "Quick">>, <<"Qt", "QuickParticles">>,
      <<"Qt", "Sql">>, <<"Qt", "QuickTest">>, <<"Qt", "Test">>, <<"Qt", "WebKit">>,
      <<"Qt", "WebKitWidgets">>, <<"Qt", "WebSockets">>, <<"Qt", "Widgets">>,
      <<"Qt", "Concurrent">>, <<"Qt", "DBus">>, <<"Qt", "OpenGL">>,
      <<"Qt", "PrintSupport">>, <<"Qt", "Declarative">>, <<"Qt", "Script">>,
      <<"Qt", "ScriptTools">>, <<"Qt", "Svg">>, <<"Qt", "UiTools">>, <<"Qt", "Xml">>,
      <<"Qt", "XmlPatterns">>, <<"Qt", "Help">>, <<"Qt", "Designer">>,
      <<"Qt", "DesignerComponents">>, <<"Qt", "CLucene">>, <<"Qt", "Concurrent">>,
      <<"Qt", "V8">>>>

moduleDefines ==
    (<<"Qt", "Script">> :> <<<<"QT_SCRIPT_LIB">>>>) @@
    (<<"Qt", "Svg">> :> <<<<"QT_SVG_LIB">>>>) @@
    (<<"Qt", "Sql">> :> <<<<"QT_SQL_LIB">>>>) @@
    (<<"Qt", "Xml">> :> <<<<"QT_XML_LIB">>>>) @@
    (<<"Qt", "OpenGL">> :> <<<<"QT_OPENGL_LIB">>>>) @@
    (<<"Qt", "Gui">> :> <<<<"QT_GUI_LIB">>>>) @@
    (<<"Qt", "Network">> :> <<<<"QT_NETWORK_LIB">>>>) @@
    (<<"Qt", "Core">> :> <<<<"QT_CORE_LIB">>>>) @@
    (<<"Qt", "Widgets">> :> <<<<"QT_WIDGETS_LIB">>>>)

\* s.replace(old, new) on a sequence of strings: every element old becomes
\* the elements of new
RECURSIVE replace(_, _, _)
replace(s, old, new) ==
    IF s = <<>> THEN <<>>
    ELSE (IF Head(s) = old THEN new ELSE <<Head(s)>>) \o replace(Tail(s), old, new)

Get(e, k) == IF k \in DOMAIN e THEN e[k] ELSE <<>>

\* env.AppendUnique(KEY = xs): each element of xs the list does not hold yet
RECURSIVE AppendUniqueAll(_, _)
AppendUniqueAll(list, xs) ==
    IF xs = <<>> THEN list
    ELSE AppendUniqueAll(AppendUnique(list, Head(xs)), Tail(xs))

EnvAppendUnique(e, k, xs) ==
    Updated(e, [x \in {k} |-> AppendUniqueAll(Get(e, k), xs)])

\* list.remove(x): the list without the first x; the list itself when x is
\* not in it (the ValueError is caught, lines 1008-1009)
remove(list, x) ==
    LET hit == {i \in 1..Len(list) : list[i] = x}
    IN  IF hit = {} THEN list
        ELSE SubSeq(list, 1, Min(hit) - 1) \o SubSeq(list, Min(hit) + 1, Len(list))

\* the loop of lines 968-970
RECURSIVE AddDefines(_, _)
AddDefines(e, modules) ==
    IF modules = <<>> THEN e
    ELSE AddDefines(IF Head(modules) \in DOMAIN moduleDefines
                    THEN EnvAppendUnique(e, "CPPDEFINES", moduleDefines[Head(modules)])
                    ELSE e,
                    Tail(modules))

\* QtAssistant gives way to QtAssistantClient in the caller's list (lines
\* 1016-1017)
AssistantClient(modules) ==
    Append(remove(modules, <<"Qt", "Assistant">>), <<"Qt", "AssistantClient">>)

\* the caller's list after the Windows branch: QtDBus is removed from it in
\* place (lines 1008-1009), and QtAssistant replaced (lines 1013-1017); the
\* pkg-config branch works on a list of its own and leaves the caller's
WindowsModules(modules) ==
    LET m1 == remove(modules, <<"Qt", "DBus">>)
    IN  IF <<"Qt", "Assistant">> \in Range(m1) THEN AssistantClient(m1) ELSE m1

\* the branch of lines 972-999: pkg-config.  flags is what env.ParseConfig
\* merges into the environment from the command's output
PkgConfigBranch(e, modules, debug, flags) ==
    LET debugSuffix == IF debug THEN <<"_debug">> ELSE <<>>
        pc(m) == replace(m, "Qt", <<"Qt5">>) \o debugSuffix
        pcmodules == [i \in 1..Len(modules) |-> pc(modules[i])]
        e1 == IF <<"Qt5", "DBus">> \in Range(pcmodules)
              THEN EnvAppendUnique(e, "CPPPATH", <<<<"$QT5DIR", "/include/", "Qt5", "DBus">>>>)
              ELSE e
        e2 == IF <<"Qt5", "Assistant">> \in Range(pcmodules)
              THEN EnvAppendUnique(e1, "CPPPATH",
                                   <<<<"$QT5DIR", "/include/", "Qt5", "Assistant">>>>)
              ELSE e1
        e3 == EnvAppendUnique(e2, "RPATH", <<<<"$QT5DIR", "/lib">>>>)
        e4 == EnvAppendUnique(EnvAppendUnique(e3, "LIBS", flags.LIBS),
                              "CPPPATH", flags.CPPPATH)
    IN  Updated(e4, [k \in {"QT5_MOCCPPPATH"} |-> Get(e4, "CPPPATH")])

\* the branch of lines 1001-1037: Windows and cross compilation.  wine is
\* what transformToWinePath reads from the winepath command.  os.path.join
\* (lines 1007, 1015, 1037) puts os.sep between the parts: a backslash in
\* the Python of sys.platform win32, whose os.path is ntpath, a slash
\* elsewhere
WindowsBranch(e, modules, debug, crosscompiling, platform, wine) ==
    LET sep == IF platform = "win32" THEN "\\" ELSE "/"
        e1 == IF crosscompiling
              THEN Updated(e, [k \in {"QT5_MOC"} |->
                                  <<"QT5DIR=">> \o wine \o <<" ">> \o e["QT5_MOC"]])
              ELSE e
        e2 == EnvAppendUnique(e1, "CPPPATH", <<<<"$QT5DIR", sep \o "include">>>>)
        m1 == remove(modules, <<"Qt", "DBus">>)
        debugSuffix == IF debug THEN <<"d">> ELSE <<>>
        assistant == <<"Qt", "Assistant">> \in Range(m1)
        e3 == IF assistant
              THEN EnvAppendUnique(e2, "CPPPATH",
                                   <<<<"$QT5DIR", sep \o "include" \o sep,
                                       "Qt", "Assistant">>>>)
              ELSE e2
        m2 == WindowsModules(modules)
        lib(m) == replace(m, "Qt", <<"Qt5">>) \o debugSuffix
        inc(m) == <<"$QT5DIR", "/include/">> \o m
        e4 == EnvAppendUnique(e3, "LIBS", <<<<"qtmain">> \o debugSuffix>>)
        e5 == EnvAppendUnique(e4, "LIBS", [i \in 1..Len(m2) |-> lib(m2[i])])
        e6 == IF <<"Qt", "OpenGL">> \in Range(m2)
              THEN EnvAppendUnique(e5, "LIBS", <<<<"opengl32">>>>)
              ELSE e5
        e7 == EnvAppendUnique(e6, "CPPPATH", <<<<"$QT5DIR", "/include/">>>>)
        e8 == EnvAppendUnique(e7, "CPPPATH", [i \in 1..Len(m2) |-> inc(m2[i])])
        towine(p) == replace(p, "$QT5DIR", wine)
        e9 == Updated(e8, [k \in {"QT5_MOCCPPPATH"} |->
                              IF crosscompiling
                              THEN [i \in 1..Len(Get(e8, "CPPPATH")) |->
                                       towine(Get(e8, "CPPPATH")[i])]
                              ELSE Get(e8, "CPPPATH")])
    IN  EnvAppendUnique(e9, "LIBPATH", <<<<"$QT5DIR", sep \o "lib">>>>)

\* the requested names that are not valid, in the order requested (lines
\* 947-948)
invalidModules(modules) ==
    SelectSeq(modules, LAMBDA m : m \notin Range(validModules))

\* the modules' defines are added before the names are validated
enable_modules_unchecked(e, modules, debug, crosscompiling, platform, flags, wine) ==
    [raised |-> invalidModules(modules) # <<>>,
     message |-> <<invalidModules(modules), validModules>>,
     env |-> AddDefines(e, modules), modules |-> modules]

\* enable_modules(self, modules, debug, crosscompiling) on platform
\* sys.platform: whether it raised, what the exception says, the
\* environment it leaves, and the caller's list as it leaves it
enable_modules(e, modules, debug, crosscompiling, platform, flags, wine) ==
    LET invalid == invalidModules(modules)
        e1 == AddDefines(e, modules)
    IN  IF invalid # <<>>
        THEN [raised |-> TRUE, message |-> <<invalid, validModules>>, env |-> e,
              modules |-> modules]
        ELSE IF platform \in {"darwin", "linux2", "linux"} /\ ~crosscompiling
        THEN [raised |-> FALSE, message |-> <<>>,
              env |-> PkgConfigBranch(e1, modules, debug, flags),
              modules |-> modules]
        ELSE IF platform = "win32" \/ crosscompiling
        THEN [raised |-> FALSE, message |-> <<>>,
              env |-> WindowsBranch(e1, modules, debug, crosscompiling, platform, wine),
              modules |-> WindowsModules(modules)]
        ELSE [raised |-> FALSE, message |-> <<>>, env |-> e1, modules |-> modules]

(***************************************************************************)
(* The wrappers Ts5 and Qrc5 (lines 616-644, 663-676).  An argument is     *)
(* None, one name, or a list of names.                                     *)
(***************************************************************************)
None == [kind |-> "none"]
One(n) == [kind |-> "one", item |-> n]
List(ns) == [kind |-> "list", items |-> ns]

\* SCons.Util.is_List(x)
is_List(x) == x.kind = "list"

\* the truth value of an argument: None and the empty list are false
Truthy(x) == x.kind = "one" \/ (x.kind = "list" /\ x.items # <<>>)

\* lines 621-623, 652-654, 668-670: target and source as lists; the source
\* is a copy of the targets when none is given
AsLists(target, source) ==
    LET t == IF is_List(target) THEN target.items ELSE <<target.item>>
        s == IF ~Truthy(source) THEN t
             ELSE IF is_List(source) THEN source.items ELSE <<source.item>>
    IN  [target |-> t, source |-> s]

\* zip(target, source): the pairs up to the end of the shorter list
zip(t, s) == [i \in 1..Min({Len(t), Len(s)}) |-> <<t[i], s[i]>>]

\* Qrc5(env, target, source): the calls of __qrc_builder in order, each
\* <<target, source>>, and the returned list, one node per call
Qrc5(target, source) ==
    LET a == AsLists(target, source)
        pairs == zip(a.target, a.source)
    IN  [calls |-> pairs,
         result |-> [i \in 1..Len(pairs) |-> pairs[i][1]],
         noclean |-> {}, precious |-> {}]

\* lines 626-629: clean_ts
clean_ts(e) == int(subst(e, "QT5_CLEAN_TS")) = <<1>>

\* Ts5 that never exempts the files from a full clean
Ts5_never_noclean(e, target, source) ==
    LET a == AsLists(target, source)
    IN  [calls |-> [i \in 1..Len(a.target) |-> <<a.target[i], a.source>>],
         result |-> a.target,
         noclean |-> {},
         precious |-> Range(a.target)]

\* Ts5(env, target, source): the calls of __ts_builder in order, each
\* <<target, sources>>, the returned list, and the nodes passed to
\* env.NoClean and env.Precious
Ts5(e, target, source) ==
    LET a == AsLists(target, source)
    IN  [calls |-> [i \in 1..Len(a.target) |-> <<a.target[i], a.source>>],
         result |-> a.target,
         noclean |-> IF clean_ts(e) THEN {} ELSE Range(a.target),
         precious |-> Range(a.target)]

(***************************************************************************)
(* The resource scanner (__scanResources, lines 479-502).  A manifest and  *)
(* a name are sequences of tokens, the separator of a name is the token    *)
(* "/".  The file tree maps every directory, as the sequence of its names  *)
(* from the root, to what os.listdir returns for it; cwd is the working    *)
(* directory of the process.                                               *)
(***************************************************************************)
LtTokens == {"<file", "</file>", "<qresource>", "</qresource>"}
GtTokens == {">", "</file>", "<qresource>", "</qresource>"}

\* the first position from i on whose token is in S, Len + 1 when none
RECURSIVE FirstIn(_, _, _)
FirstIn(text, i, S) ==
    IF i > Len(text) THEN Len(text) + 1
    ELSE IF text[i] \in S THEN i ELSE FirstIn(text, i + 1, S)

\* qrcinclude_re.findall(contents), the pattern <file[^>]*>([^<]*)</file>:
\* the captured texts in order.  The opening tag ends with the first token
\* that holds a ">", the capture with the first token that holds a "<"
RECURSIVE qrcinclude_findall(_, _)
qrcinclude_findall(text, i) ==
    IF i > Len(text) THEN <<>>
    ELSE IF text[i] # "<file" THEN qrcinclude_findall(text, i + 1)
    ELSE LET g == FirstIn(text, i + 1, GtTokens)
             l == FirstIn(text, g + 1, LtTokens)
         IN  IF g <= Len(text) /\ l <= Len(text) /\ text[l] = "</file>"
             THEN <<SubSeq(text, g + 1, l - 1)>> \o qrcinclude_findall(text, l + 1)
             ELSE qrcinclude_findall(text, i + 1)

\* os.path.join(a, b): b alone when it is absolute, else a and b with a
\* separator between them unless a is empty or ends with one
join(a, b) ==
    IF b # <<>> /\ b[1] = "/" THEN b
    ELSE IF a = <<>> \/ a[Len(a)] = "/" THEN a \o b
    ELSE a \o <<"/">> \o b

\* the components of a name, the strings between its separators
RECURSIVE split(_, _)
split(text, cur) ==
    IF text = <<>> THEN <<cur>>
    ELSE IF Head(text) = "/" THEN <<cur>> \o split(Tail(text), "")
    ELSE split(Tail(text), cur \o Head(text))

\* the directory the components from the i-th on lead to from the directory
\* at, as <<directory>>, or <<>> when a component is no directory: "" and "."
\* stay, ".." is the parent (the root is its own parent)
RECURSIVE walk(_, _, _, _)
walk(tree, at, comps, i) ==
    IF i > Len(comps) THEN <<at>>
    ELSE IF comps[i] \in {"", "."} THEN walk(tree, at, comps, i + 1)
    ELSE IF comps[i] = ".."
    THEN walk(tree, IF at = <<>> THEN at ELSE SubSeq(at, 1, Len(at) - 1), comps, i + 1)
    ELSE IF at \o <<comps[i]>> \in DOMAIN tree
    THEN walk(tree, at \o <<comps[i]>>, comps, i + 1)
    ELSE <<>>

\* the directory a name denotes: an absolute name is looked up from the
\* root, any other from the working directory
lookup(tree, cwd, p) ==
    walk(tree, IF p # <<>> /\ p[1] = "/" THEN <<>> ELSE cwd, split(p, ""), 1)

\* os.path.isdir(p): '' is no directory
isdir(tree, cwd, p) == p # <<>> /\ lookup(tree, cwd, p) # <<>>

\* os.listdir(p) of a directory p
listdir(tree, cwd, p) == tree[lookup(tree, cwd, p)[1]]

\* recursiveFiles that lists a directory's own files only
recursiveFiles_flat(tree, cwd, basepath, path) ==
    LET items == listdir(tree, cwd, join(basepath, path))
        files == SelectSeq(items, LAMBDA c :
                              ~isdir(tree, cwd, join(basepath, join(path, <<c>>))))
    IN  [i \in 1..Len(files) |-> join(path, <<files[i]>>)]

\* recursiveFiles(basepath, path), lines 483-490
RECURSIVE recursiveFiles(_, _, _, _)
recursiveFiles(tree, cwd, basepath, path) ==
    LET items == listdir(tree, cwd, join(basepath, path))
        of(item) == LET itemPath == join(path, <<item>>)
                    IN  IF isdir(tree, cwd, join(basepath, itemPath))
                        THEN recursiveFiles(tree, cwd, basepath, itemPath)
                        ELSE <<itemPath>>
        RECURSIVE from(_)
        from(i) == IF i > Len(items) THEN <<>> ELSE of(items[i]) \o from(i + 1)
    IN  from(1)

\* the loop of lines 499-501 from the i-th directory on
RECURSIVE ReplaceDirs(_, _, _, _, _, _)
ReplaceDirs(tree, cwd, qrcpath, includes, dirs, i) ==
    IF i > Len(dirs) THEN includes
    ELSE ReplaceDirs(tree, cwd, qrcpath,
                     remove(includes, dirs[i])
                         \o recursiveFiles(tree, cwd, qrcpath, dirs[i]),
                     dirs, i + 1)

\* __scanResources(node, env, path, arg) for the manifest contents in the
\* directory qrcpath: the returned list of names
__scanResources(tree, cwd, qrcpath, contents) ==
    LET includes == qrcinclude_findall(contents, 1)
        dirs == SelectSeq(includes, LAMBDA p : isdir(tree, cwd, join(qrcpath, p)))
    IN  ReplaceDirs(tree, cwd, qrcpath, includes, dirs, 1)

(***************************************************************************)
(* The command generators (lines 534-559, 566-585).  A command line is a   *)
(* sequence of tokens; every occurrence of the text -name in a value is a  *)
(* token of its own.                                                       *)
(***************************************************************************)
\* text.find(sub) >= 0 for a text whose occurrences of sub are tokens
find(text, sub) == sub \in Range(text)

\* os.path.split(src)[1]: what follows the last separator
tail(src) ==
    LET seps == {i \in 1..Len(src) : src[i] = "/"}
    IN  IF seps = {} THEN src ELSE SubSeq(src, Max(seps) + 1, Len(src))

\* src.endswith(suffix)
endswith(src, suffix) ==
    /\ Len(suffix) <= Len(src)
    /\ SubSeq(src, Len(src) - Len(suffix) + 1, Len(src)) = suffix

\* src[:-n]: the empty text for n = 0
DropLast(src, n) == IF n = 0 THEN <<>> ELSE SubSeq(src, 1, Len(src) - n)

\* lines 576-583: the stem of the manifest's name
qrc_stem(e, source) ==
    LET src == IF tail(source) # <<>> THEN tail(source) ELSE source
        qrc_suffix == subst(e, "QT5_QRCSUFFIX")
    IN  IF endswith(src, qrc_suffix) THEN DropLast(src, Len(qrc_suffix)) ELSE src

\* __qrc_generator(source, target, env, for_signature): the command line
__qrc_generator(e, source) ==
    LET name_defined == find(subst(e, "QT5_QRCFLAGS"), "-name")
    IN  [command |->
            IF name_defined
            THEN <<"$QT5_RCC", " ", "$QT5_QRCFLAGS", " ", "$SOURCE", " ", "-o", " ",
                   "$TARGET">>
            ELSE <<"$QT5_RCC", " ", "$QT5_QRCFLAGS", " ", "-name", " ">>
                 \o qrc_stem(e, source)
                 \o <<" ", "$SOURCE", " ", "-o", " ", "$TARGET">>,
         check |-> FALSE]

\* lines 535-539, 548-551: pass_defines
pass_defines(e) == int(subst(e, "QT5_CPPDEFINES_PASSTOMOC")) = <<1>>

\* __moc_generator_from_h(source, target, env, for_signature)
__moc_generator_from_h(e) ==
    LET s == <<"$QT5_MOCFROMHFLAGS", " ", "$QT5_MOCINCFLAGS", " ", "-o", " ",
               "$TARGET", " ", "$SOURCE">>
    IN  [command |-> IF pass_defines(e)
                     THEN <<"$QT5_MOC", " ", "$QT5_MOCDEFINES", " ">> \o s
                     ELSE <<"$QT5_MOC", " ">> \o s,
         check |-> FALSE]

\* __moc_generator_from_cxx(source, target, env, for_signature): the command
\* line, followed by the checkMocIncluded action
__moc_generator_from_cxx(e) ==
    [command |-> IF pass_defines(e)
                 THEN <<"$QT5_MOC", " ", "$QT5_MOCDEFINES", " ", "$QT5_MOCFROMCXXFLAGS",
                        " ", "$QT5_MOCINCFLAGS", " ", "-o", " ", "$TARGET", " ",
                        "$SOURCE">>
                 ELSE <<"$QT5_MOC", " ", "$QT5_MOCFROMCXXFLAGS", " ", "$QT5_MOCINCFLAGS",
                        " ", "-o", " ", "$TARGET", " ", "$SOURCE">>,
     check |-> TRUE]

(***************************************************************************)
(* SpecModules: one call of EnableQt5Modules on the environment generate   *)
(* left, for every list of at most MaxModules names.                       *)
(***************************************************************************)
MaxModules == 2

ModulePool ==
    {<<"Qt", "Core">>, <<"Qt", "Gui">>, <<"Qt", "DBus">>, <<"Qt", "OpenGL">>,
     <<"Qt", "Test">>, <<"Qt", "Bogus">>, <<"Qt", "Assistant">>}

Platforms == {"linux", "win32", "freebsd"}

\* what the caller has put into the lists before; CPPPATH is defined, the
\* tool reads it (lines 998, 1036)
CallerLists ==
    {[CPPPATH |-> <<>>], [CPPDEFINES |-> <<<<"QT_CORE_LIB">>, <<"NDEBUG">>>>,
            CPPPATH |-> <<<<"inc">>>>, LIBS |-> <<<<"m">>>>],
     [CPPPATH |-> <<<<"$QT5DIR", "/include">>, <<"inc">>>>,
      LIBPATH |-> <<<<"$QT5DIR", "/lib">>>>]}

InitModules ==
    \E modules \in SeqsUpTo(ModulePool, MaxModules), debug \in BOOLEAN,
       crosscompiling \in BOOLEAN, platform \in Platforms, lists \in CallerLists :
       LET g == Generated(<<".", "cpp">>) IN
       /\ env = Updated(g.env, lists)
       /\ emitters = g.emitters
       /\ builders = g.builders
       /\ world = ScanWorld
       /\ det = g.det
       /\ gen = [IdleGen EXCEPT !.calls = 1, !.status = g.status]
       /\ fs = <<>>
       /\ sources = <<>>
       /\ am = IdleAm
       /\ call = [op |-> "enable_modules", done |-> FALSE, modules |-> modules,
                  requested |-> modules,
                  debug |-> debug, crosscompiling |-> crosscompiling,
                  platform |-> platform, raised |-> FALSE, message |-> <<>>,
                  before |-> Updated(g.env, lists)]

\* what pkg-config may answer for the modules, and what winepath answers
PkgFlags(modules) ==
    {[LIBS |-> <<>>, CPPPATH |-> <<>>],
     [LIBS |-> [i \in 1..Len(modules) |-> replace(modules[i], "Qt", <<"Qt5">>)],
      CPPPATH |-> <<<<"usr", "/include/", "qt5">>>>]}

WinePath == <<"Z:", "/opt/qt5">>

EnableQt5Modules ==
    /\ call.op = "enable_modules" /\ ~call.done
    /\ \E flags \in PkgFlags(call.modules) :
          LET r == enable_modules(env, call.modules, call.debug, call.crosscompiling,
                                  call.platform, flags, WinePath)
          IN  /\ env' = r.env
              /\ call' = [call EXCEPT !.done = TRUE, !.raised = r.raised,
                                      !.message = r.message, !.modules = r.modules]
    /\ UNCHANGED <<emitters, builders, world, det, gen, fs, sources, am>>

SpecModules == InitModules /\ [][EnableQt5Modules]_vars

(***************************************************************************)
(* SpecWrap: one call of a wrapper, Qrc5 or Ts5, with every shape of the   *)
(* target and source arguments up to MaxWrapArgs names.                    *)
(***************************************************************************)
MaxWrapArgs == 2

TargetNames == {"a", "b"}
SourceNames == {"r.qrc", "s.qrc"}

Args(names) ==
    {None} \cup {One(n) : n \in names}
           \cup {List(ns) : ns \in SeqsUpTo(names, MaxWrapArgs)}

CleanTsValues == {<<"0">>, <<"1">>, <<"x">>, <<"0", "1">>, <<"+", "1">>, <<"-", "1">>,
                   <<"\r", "<u0661>">>, LongNumeral}

InitWrap ==
    \E op \in {"Qrc5", "Ts5"}, target \in Args(TargetNames) \ {None},
       source \in Args(SourceNames), c \in CleanTsValues :
       LET g == Generated(<<".", "cpp">>) IN
       /\ op = "Qrc5" => c = <<"0">>
       /\ env = Updated(g.env, [QT5_CLEAN_TS |-> c])
       /\ emitters = g.emitters
       /\ builders = g.builders
       /\ world = ScanWorld
       /\ det = g.det
       /\ gen = [IdleGen EXCEPT !.calls = 1, !.status = g.status]
       /\ fs = <<>>
       /\ sources = <<>>
       /\ am = IdleAm
       /\ call = [op |-> op, done |-> FALSE, target |-> target, source |-> source,
                  calls |-> <<>>, result |-> <<>>, noclean |-> {}, precious |-> {}]

WrapperReturned(r) ==
    [call EXCEPT !.done = TRUE, !.calls = r.calls, !.result = r.result,
                 !.noclean = r.noclean, !.precious = r.precious]

CallQrc5 ==
    /\ call.op = "Qrc5" /\ ~call.done
    /\ call' = WrapperReturned(Qrc5(call.target, call.source))
    /\ UNCHANGED <<env, emitters, builders, world, det, gen, fs, sources, am>>

CallTs5 ==
    /\ call.op = "Ts5" /\ ~call.done
    /\ call' = WrapperReturned(Ts5(env, call.target, call.source))
    /\ UNCHANGED <<env, emitters, builders, world, det, gen, fs, sources, am>>

NextWrap == CallQrc5 \/ CallTs5

SpecWrap == InitWrap /\ [][NextWrap]_vars

(***************************************************************************)
(* SpecRes: one scan of a manifest that declares at most MaxDecls names,   *)
(* in the working directory or in res/, over several file trees.           *)
(***************************************************************************)
MaxDecls == 2

\* names of files and directories, a missing file, the empty name, and
\* names spelled with ".", "..", a doubled or trailing separator, or from
\* the root (/w/assets is a directory when the manifest is in the working
\* directory)
DeclPool ==
    {<<"assets">>, <<"assets", "/", "sub">>, <<"i.png">>, <<"e">>, <<>>, <<"n.png">>,
     <<"assets", "/", "a.png">>, <<".", "/", "assets">>, <<"/", "assets">>,
     <<"assets", "/", "/", "sub">>, <<"assets", "/", "..", "/", "e">>, <<"..">>,
     <<"assets", "/">>, <<"/", "w", "/", "assets">>}

\* the working directory of the process
Cwd == <<"w">>

\* the tree below the manifest's directory d: assets with a.png and sub/b.png,
\* an empty directory e, and i.png and the manifest next to them
TreeBelow(d, assets, top) ==
    (d :> top) @@ (d \o <<"assets">> :> assets) @@
    (d \o <<"assets", "sub">> :> <<"b.png">>) @@ (d \o <<"e">> :> <<>>)

\* the trees from the root: the working directory, in it the manifest's
\* directory qrcpath (the working directory itself when qrcpath is empty)
Trees(qrcpath) ==
    LET below == {TreeBelow(Cwd \o qrcpath, a, t) :
                    a \in {<<"a.png", "sub">>, <<"sub", "a.png">>},
                    t \in {<<"assets", "e", "i.png", "m.qrc">>,
                           <<"m.qrc", "i.png", "e", "assets">>}}
        above == IF qrcpath = <<>> THEN (<<>> :> Cwd)
                 ELSE (<<>> :> Cwd) @@ (Cwd :> qrcpath)
    IN  {above @@ t : t \in below}

\* the manifest that declares the names, the second one with an attribute;
\* when the manifest is malformed the opening tag of the first lacks its
\* ">" and runs up to the end of a tag written into it
Manifest(decls, malformed) ==
    LET elem(i) == <<"<file">>
                   \o (IF i = 2 THEN <<" alias=j">> ELSE <<>>)
                   \o (IF i = 1 /\ malformed THEN <<"<qresource>">> ELSE <<">">>)
                   \o decls[i] \o <<"</file>">>
        RECURSIVE from(_)
        from(i) == IF i > Len(decls) THEN <<>> ELSE elem(i) \o from(i + 1)
    IN  <<"<qresource>">> \o from(1) \o <<"</qresource>">>

InitRes ==
    \E qrcpath \in {<<>>, <<"res">>} : \E tree \in Trees(qrcpath) :
    \E decls \in SeqsUpTo(DeclPool, MaxDecls), malformed \in BOOLEAN :
       LET g == Generated(<<".", "cpp">>) IN
       /\ env = g.env
       /\ emitters = g.emitters
       /\ builders = g.builders
       /\ world = ScanWorld
       /\ det = g.det
       /\ gen = [IdleGen EXCEPT !.calls = 1, !.status = g.status]
       /\ fs = <<>>
       /\ sources = <<>>
       /\ am = IdleAm
       /\ call = [op |-> "scanResources", done |-> FALSE, tree |-> tree, cwd |-> Cwd,
                  qrcpath |-> qrcpath, decls |-> decls,
                  contents |-> Manifest(decls, malformed), result |-> <<>>]

ScanResources ==
    /\ call.op = "scanResources" /\ ~call.done
    /\ call' = [call EXCEPT !.done = TRUE,
                   !.result = __scanResources(call.tree, call.cwd, call.qrcpath,
                                              call.contents)]
    /\ UNCHANGED <<env, emitters, builders, world, det, gen, fs, sources, am>>

SpecRes == InitRes /\ [][ScanResources]_vars

(***************************************************************************)
(* SpecCmd: one call of a command generator: the resource generator over   *)
(* flag values, manifest names and manifest suffixes, the two moc          *)
(* generators over the values of QT5_CPPDEFINES_PASSTOMOC.                 *)
(***************************************************************************)
QrcFlagValues ==
    {<<>>, <<"-name", " ", "x">>, <<"-compress", " ", "9", " ", "-name", " ", "x">>,
     <<"-name", "space">>, <<"-compress", " ", "9">>,
     <<"-root", " ", "/my", "-name", "d">>}

ManifestNames ==
    {<<"app", ".", "qrc">>, <<"res", "/", "app", ".", "qrc">>, <<"app", ".", "txt">>,
     <<"res", "/", "sub", "/", "a", ".", "qrc">>, <<"a", ".", "qrc", ".", "qrc">>}

ManifestSuffixes == {<<".", "qrc">>, <<".", "rc">>, <<>>}

FlagValues ==
    {<<"0">>, <<"1">>, <<"x">>, <<"0", "1">>, <<>>, <<"+", "1">>, <<"-", "0">>,
     <<"-", "1">>, <<" ", "1", "\n">>, <<"1", "_", "0">>, <<"1", "_">>,
     <<"\r", "<u0661>">>, <<"<u001c>", "1">>, LongNumeral}

InitCmd ==
    \E op \in {"qrc_generator", "moc_generator_from_h", "moc_generator_from_cxx"},
       flags \in QrcFlagValues, source \in ManifestNames, suffix \in ManifestSuffixes,
       pass \in FlagValues :
       LET g == Generated(<<".", "cpp">>) IN
       /\ op = "qrc_generator" => pass = <<"1">>
       /\ op # "qrc_generator" =>
             flags = <<>> /\ suffix = <<".", "qrc">> /\ source = <<"app", ".", "qrc">>
       /\ env = Updated(g.env, [QT5_QRCFLAGS |-> flags, QT5_QRCSUFFIX |-> suffix,
                                QT5_CPPDEFINES_PASSTOMOC |-> pass])
       /\ emitters = g.emitters
       /\ builders = g.builders
       /\ world = ScanWorld
       /\ det = g.det
       /\ gen = [IdleGen EXCEPT !.calls = 1, !.status = g.status]
       /\ fs = <<>>
       /\ sources = <<>>
       /\ am = IdleAm
       /\ call = [op |-> op, done |-> FALSE, source |-> source, command |-> <<>>,
                  check |-> FALSE]

Generator(op, r) ==
    /\ call.op = op /\ ~call.done
    /\ call' = [call EXCEPT !.done = TRUE, !.command = r.command, !.check = r.check]
    /\ UNCHANGED <<env, emitters, builders, world, det, gen, fs, sources, am>>

QrcGenerator == Generator("qrc_generator", __qrc_generator(env, call.source))

MocGeneratorFromH == Generator("moc_generator_from_h", __moc_generator_from_h(env))

MocGeneratorFromCxx == Generator("moc_generator_from_cxx", __moc_generator_from_cxx(env))

NextCmd == QrcGenerator \/ MocGeneratorFromH \/ MocGeneratorFromCxx

SpecCmd == InitCmd /\ [][NextCmd]_vars

(***************************************************************************)
(* SpecFlags: one integer flag at a time holds each of FlagValues, the     *)
(* others their defaults, and the operation that reads the flag runs: the  *)
(* scanner, a moc command generator, or Ts5.                               *)
(***************************************************************************)
ScannerFlags ==
    {"QT5_AUTOSCAN", "QT5_AUTOSCAN_STRATEGY", "QT5_GOBBLECOMMENTS",
     "QT5_AUTOMOC_SCANCPPPATH"}

\* w.cpp includes w.moc and holds the macro, v.cpp has its header in inc/;
\* the header w.h holds the macro in a comment, or cannot be decoded
FlagFiles ==
    {(WCpp :> Include(<<"w", ".", "moc">>) \o NL \o MARK) @@ (WH :> h)
        @@ (VCpp :> <<"x">>) @@ (VHpp :> Marked) :
     h \in {BLOCKMARK \o NL, <<"<e9>">>}}

FlagSources ==
    {<<>>, <<Obj(WCpp)>>, <<Obj(VCpp), Obj(WCpp)>>, <<Obj(WCpp), Obj(VCpp), Obj(WCpp)>>,
     <<BareString, Obj(VCpp), Binary>>}

InitFlagsScanner ==
    \E k \in ScannerFlags, v \in FlagValues, files \in FlagFiles, srcs \in FlagSources,
       emitter \in {"AutomocStatic", "AutomocShared"} :
       ScanInit(<<".", "cpp">>, (k :> v) @@ [CPPPATH |-> <<"inc">>], files, srcs, emitter)

InitFlagsCall ==
    \E v \in FlagValues,
       op \in {"moc_generator_from_h", "moc_generator_from_cxx", "Ts5"},
       target \in Args(TargetNames) \ {None}, source \in Args(SourceNames) :
       LET g == Generated(<<".", "cpp">>) IN
       /\ op # "Ts5" => target = One("a") /\ source = None
       /\ env = Updated(g.env, IF op = "Ts5" THEN [QT5_CLEAN_TS |-> v]
                                             ELSE [QT5_CPPDEFINES_PASSTOMOC |-> v])
       /\ emitters = g.emitters
       /\ builders = g.builders
       /\ world = ScanWorld
       /\ det = g.det
       /\ gen = [IdleGen EXCEPT !.calls = 1, !.status = g.status]
       /\ fs = <<>>
       /\ sources = <<>>
       /\ am = IdleAm
       /\ call = IF op = "Ts5"
                 THEN [op |-> op, done |-> FALSE, target |-> target, source |-> source,
                       calls |-> <<>>, result |-> <<>>, noclean |-> {}, precious |-> {}]
                 ELSE [op |-> op, done |-> FALSE, source |-> <<"w", ".", "h">>,
                       command |-> <<>>, check |-> FALSE]

InitFlags == InitFlagsScanner \/ InitFlagsCall

NextFlags == Automoc \/ MocGeneratorFromH \/ MocGeneratorFromCxx \/ CallTs5

SpecFlags == InitFlags /\ [][NextFlags]_vars

(***************************************************************************)
(* Properties of EnableQt5Modules, the wrappers, the resource scanner and  *)
(* the command generators.                                                 *)
(***************************************************************************)
\* the requested names the tool does not recognize
Unrecognized == {m \in Range(call.requested) : m \notin Range(validModules)}

\* C11: when at least one requested module name is not recognized, the call
\* of EnableQt5Modules raises, its message names the unrecognized names (and
\* the valid ones), and the environment is as it was before the call, also
\* when other requested names are valid.
C11_ValidatesBeforeChanging ==
    (call.op = "enable_modules" /\ call.done /\ Unrecognized # {}) =>
        /\ call.raised
        /\ Range(call.message[1]) = Unrecognized
        /\ call.message[2] = validModules
        /\ env = call.before

\* a call with a valid name that has a define and an unrecognized name
C11_Witness ==
    /\ call.op = "enable_modules" /\ call.done /\ call.raised
    /\ <<"Qt", "Core">> \in Range(call.requested)
    /\ <<"Qt", "Bogus">> \in Range(call.requested)
    /\ call.before = env
    /\ "CPPDEFINES" \notin DOMAIN env

\* the targets of the call as a list, and the sources given (the targets
\* when none is given)
TargetsGiven ==
    IF call.target.kind = "list" THEN call.target.items ELSE <<call.target.item>>

SourcesGiven ==
    IF call.source.kind = "none" THEN TargetsGiven
    ELSE IF call.source.kind = "one" THEN <<call.source.item>>
    ELSE IF call.source.items = <<>> THEN TargetsGiven ELSE call.source.items

\* C12: Qrc5 invokes the resource builder once per target, for every target
\* list and source argument: the number of invocations and of returned
\* results equals the number of targets, and the i-th invocation is for the
\* i-th target.
C12_OncePerTarget ==
    (call.op = "Qrc5" /\ call.done) =>
        /\ Len(call.calls) = Len(TargetsGiven)
        /\ Len(call.result) = Len(TargetsGiven)
        /\ \A i \in 1..Len(call.calls) : call.calls[i][1] = TargetsGiven[i]

\* C13: Ts5 passes every produced file to Precious whatever QT5_CLEAN_TS is,
\* and to NoClean exactly when QT5_CLEAN_TS is not the integer 1; it invokes
\* the builder once per target, in order, each time with the full source
\* list, which is the list of targets when no source is given.
C13_Ts5Exemptions ==
    (call.op = "Ts5" /\ call.done) =>
        LET one == env["QT5_CLEAN_TS"] \in {<<"1">>, <<"0", "1">>, <<"+", "1">>, <<"\r", "<u0661>">>}
        IN  /\ call.precious = Range(call.result)
            /\ call.noclean = (IF one THEN {} ELSE Range(call.result))
            /\ call.result = TargetsGiven
            /\ Len(call.calls) = Len(TargetsGiven)
            /\ \A i \in 1..Len(call.calls) :
                  call.calls[i] = <<TargetsGiven[i], SourcesGiven>>

\* two targets without a source at QT5_CLEAN_TS = 0: both exemptions, the
\* sources are the targets
C13_Witness ==
    /\ call.op = "Ts5" /\ call.done
    /\ env["QT5_CLEAN_TS"] = <<"0">>
    /\ call.target = List(<<"a", "b">>) /\ call.source = None
    /\ call.noclean = {"a", "b"} /\ call.precious = {"a", "b"}
    /\ call.calls = << <<"a", <<"a", "b">>>>, <<"b", <<"a", "b">>>> >>

\* the place a name leads to from the manifest's directory, as the sequence
\* of names from the root: "." and a doubled separator lead nowhere else,
\* ".." leads one directory up, a name that begins with a separator starts
\* at the root
RECURSIVE Below(_, _)
Below(place, name) ==
    IF name = <<>> THEN place
    ELSE IF Head(name) \in {"/", "."} THEN Below(place, Tail(name))
    ELSE IF Head(name) = ".."
    THEN Below(IF place = <<>> THEN place ELSE SubSeq(place, 1, Len(place) - 1),
               Tail(name))
    ELSE Below(Append(place, Head(name)), Tail(name))

Place(name) ==
    IF name # <<>> /\ name[1] = "/" THEN Below(<<>>, name)
    ELSE Below(call.cwd \o call.qrcpath, name)

\* whether a name is a directory relative to the manifest's directory; the
\* empty name of a manifest in the working directory names nothing
IsDeclaredDir(name) ==
    call.qrcpath \o name # <<>> /\ Place(name) \in DOMAIN call.tree

DeclaredFiles == {d \in Range(call.decls) : ~IsDeclaredDir(d)}
DeclaredDirs == {d \in Range(call.decls) : IsDeclaredDir(d)}

\* every file of the tree
TreeFiles ==
    UNION {{d \o <<c>> : c \in Range(call.tree[d])} : d \in DOMAIN call.tree}
        \ DOMAIN call.tree

\* the files under a directory at any depth
FilesUnder(dir) ==
    {f \in TreeFiles : Len(f) > Len(dir) /\ SubSeq(f, 1, Len(dir)) = dir}

\* a returned name stands for a file under the declared directory d and is
\* spelled as d followed by the way down to the file
Replaces(name, d) ==
    /\ Len(name) > Len(d) /\ SubSeq(name, 1, Len(d)) = d
    /\ Place(name) \in FilesUnder(Place(d))

\* C14: the resource scanner returns every declared name, except that each
\* declared name that is a directory relative to the manifest's directory is
\* replaced by all files under it at any depth, relative to the manifest's
\* directory; no declared directory is in the result.
C14_DirectoriesReplaced ==
    (call.op = "scanResources" /\ call.done) =>
        /\ DeclaredFiles \subseteq Range(call.result)
        /\ \A n \in Range(call.result) \ DeclaredFiles :
              \E d \in DeclaredDirs : Replaces(n, d)
        /\ \A d \in DeclaredDirs : \A f \in FilesUnder(Place(d)) :
              \E n \in Range(call.result) : Replaces(n, d) /\ Place(n) = f
        /\ \A n \in Range(call.result) : ~IsDeclaredDir(n)

\* the manifest in res/ that declares the directory assets as ./assets and
\* the directory sub with a doubled separator
C14_Witness ==
    /\ call.op = "scanResources" /\ call.done
    /\ call.qrcpath = <<"res">>
    /\ call.decls = <<<<".", "/", "assets">>, <<"assets", "/", "/", "sub">>>>
    /\ Range(call.result) =
          {<<".", "/", "assets", "/", "a.png">>,
           <<".", "/", "assets", "/", "sub", "/", "b.png">>,
           <<"assets", "/", "/", "sub", "/", "b.png">>}

\* whether the configured flags hold the option -name as a word
HasNamingOption ==
    LET f == env["QT5_QRCFLAGS"]
    IN  \E i \in 1..Len(f) : /\ f[i] = "-name"
                             /\ (i = 1 \/ f[i - 1] = " ")
                             /\ (i = Len(f) \/ f[i + 1] = " ")

\* the manifest's base filename without the configured suffix
Stem ==
    LET seps == {i \in 1..Len(call.source) : call.source[i] = "/"}
        base == IF seps = {} THEN call.source
                ELSE SubSeq(call.source, Max(seps) + 1, Len(call.source))
        sfx == env["QT5_QRCSUFFIX"]
        n == Len(base) - Len(sfx)
    IN  IF n >= 0 /\ SubSeq(base, n + 1, Len(base)) = sfx THEN SubSeq(base, 1, n)
        ELSE base

\* the positions of the command at which a generated -name option stands
NameOptionAt == {i \in 1..Len(call.command) : call.command[i] = "-name"}

\* C15: the resource command generator passes '-name <stem>', the stem being
\* the manifest's base filename with the configured suffix removed, exactly
\* when QT5_QRCFLAGS contain no naming option; when they contain one, the
\* command carries no generated -name option.
C15_NameExactlyWhenUnnamed ==
    (call.op = "qrc_generator" /\ call.done) =>
        IF HasNamingOption THEN NameOptionAt = {}
        ELSE \E i \in NameOptionAt :
                SubSeq(call.command, i, i + 1 + Len(Stem)) = <<"-name", " ">> \o Stem
                /\ call.command[i + 2 + Len(Stem)] = " "

HostBuilderEnv == [objBuilder |-> "host", Moc5 |-> "host", XMoc5 |-> "host"]

\* C16: when QT5_AUTOSCAN resolves to 0 the emitter inspects no source and
\* creates no generation step, dependency edge or object; the returned list
\* is the input list without duplicates, in ascending order of the string
\* representation.
C16_AutoscanOffPassesThrough ==
    (am.done /\ env["QT5_AUTOSCAN"] \in {<<"0">>, <<"-", "0">>}) =>
        /\ ~am.raised
        /\ am.steps = {} /\ am.depends = {} /\ am.ignores = {}
        /\ Range(am.out) = Range(sources)
        /\ \A i, j \in 1..Len(am.out) :
              i < j => am.out[i] # am.out[j] /\ ~StrLess(am.out[j].name, am.out[i].name)

\* scanning is off, the list repeats w.o and is out of order, and the header
\* of w.cpp could not have been read
C16_Witness ==
    /\ am.done /\ env["QT5_AUTOSCAN"] = <<"0">>
    /\ sources = <<Obj(WCpp), Obj(VCpp), Obj(WCpp)>>
    /\ fs[WH] = <<"<e9>">>
    /\ am.out = <<Obj(VCpp), Obj(WCpp)>>

\* the defaults generate gives the integer flags
BuiltinDefault ==
    [QT5_AUTOSCAN |-> <<"1">>, QT5_AUTOSCAN_STRATEGY |-> <<"0">>,
     QT5_GOBBLECOMMENTS |-> <<"0">>, QT5_AUTOMOC_SCANCPPPATH |-> <<"1">>,
     QT5_CPPDEFINES_PASSTOMOC |-> <<"1">>, QT5_CLEAN_TS |-> <<"0">>]

\* the values int() does not take: among the values of the flags, the
\* empty text, a word, a number that ends in an underscore, a number behind
\* a separator character that int() does not strip, and a numeral of more
\* than MaxStrDigits digits
NotAnInteger(v) == v \in {<<>>, <<"x">>, <<"1", "_">>, <<"<u001c>", "1">>, LongNumeral}

\* the environment with every malformed integer flag at its default
WithDefaults ==
    Updated(env, [k \in {f \in DOMAIN BuiltinDefault : NotAnInteger(env[f])} |->
                     BuiltinDefault[k]])

\* C18: an integer flag whose value is not an integer raises no error, and
\* the scanner, the moc command generators and Ts5 behave exactly as with the
\* flag at its built-in default (1, 0, 0, 1, 1 and 0).
C18_MalformedIsDefault ==
    /\ am.done =>
          am \in __call__(am.emitter, WithDefaults, builders, world, fs, HostBuilderEnv,
                          sources)
    /\ (call.done /\ call.op = "moc_generator_from_h") =>
          call.command = __moc_generator_from_h(WithDefaults).command
    /\ (call.done /\ call.op = "moc_generator_from_cxx") =>
          call.command = __moc_generator_from_cxx(WithDefaults).command
    /\ (call.done /\ call.op = "Ts5") =>
          LET r == Ts5(WithDefaults, call.target, call.source)
          IN  call.noclean = r.noclean /\ call.precious = r.precious
              /\ call.calls = r.calls

\* C20: whenever a call of the scanner emitter ends, the object, Moc5 and
\* XMoc5 builders refer to the environment they referred to before the call.
C20_BuilderEnvRestored ==
    am.done => am.benv = HostBuilderEnv

IncludeDriven == env["QT5_AUTOSCAN_STRATEGY"] = <<"1">>

\* the steps the include-driven rules make, and the steps of strategy 0
XMocSteps == {s \in am.steps : s.builder = "XMoc5"}
PlainMocSteps == {s \in am.steps : s.builder = "Moc5"}

\* the scanner has run, include-driven, on a single source
ScannedOne == am.done /\ Len(sources) = 1 /\ IncludeDriven

\* the source, its header, and the names predicted for the files generated
\* from the header and from the source
TheSource == sources[1].src
TheHeader == HeaderOf(TheSource)
PredictedH == <<"moc_">> \o TheSource.base \o <<".", "cpp">>
PredictedCxx == TheSource.base \o <<".", "moc">>

\* the source includes the predicted generated-header name, its header
\* exists and holds no macro
IncludesHeaderMocNoMacro ==
    /\ ScannedOne
    /\ MentionsInclude(fs[TheSource], PredictedH)
    /\ TheHeader \in DOMAIN fs /\ MacroAt(fs[TheHeader]) = {}

\* a step of the meta-object compiler from the header of the source
StepFromHeader == \E s \in MocSteps : s.source = Str(TheHeader)

\* what strategy 0 makes of the same input
MacroDrivenResult ==
    __call__(am.emitter, [env EXCEPT !["QT5_AUTOSCAN_STRATEGY"] = <<"0">>],
             builders, world, fs, am.benv, sources)

Readable(f) == f \in DOMAIN fs /\ "<e9>" \notin Range(fs[f])

\* the name has a parenthesis without its partner and nothing that takes
\* the meaning of a parenthesis away, so that no regular expression can be
\* compiled from it
Unbalanced(name) ==
    /\ Range(Chars(name)) \cap {"\\", "[", "?"} = {}
    /\ Cardinality({i \in 1..Len(name) : name[i] = "("})
          # Cardinality({i \in 1..Len(name) : name[i] = ")"})

BareStrings == {sources[i] : i \in {j \in 1..Len(sources) : sources[j].kind = "str"}}

WithoutStrings == SelectSeq(sources, LAMBDA s : s.kind # "str")

\* C19: a bare string in the source list is discarded: it is not scanned, it
\* does not stop the scan of the other entries, and it is not in the returned
\* list; the call's outcome is that of the list without the strings.
C19_BareStringDiscarded ==
    am.done =>
        \E r \in __call__(am.emitter, env, builders, world, fs, am.benv, WithoutStrings) :
            /\ am.steps = r.steps /\ am.depends = r.depends /\ am.ignores = r.ignores
            /\ \A i \in 1..Len(am.out) : am.out[i] \notin BareStrings
            /\ am.out = r.out

====
